---------------------------- MODULE Spec2Model ----------------------------
(***************************************************************************)
(* Model of the thermal tyre driver (pico/c_version).                      *)
(*                                                                         *)
(*   SpecDet  : the driver loop of test_mlx_with_detection.c around        *)
(*              detect_tyre (profile extraction, median filter, EMA,       *)
(*              uniformity gate, region growing, stabilizer, zones).       *)
(*   SpecStab : the stabilizer chain of detect_tyre (geometry clamp,       *)
(*              temporal clamp, persistence, zone split) run on every      *)
(*              span the region grower can hand over.                      *)
(*                                                                         *)
(* Temperatures are fixed point: an integer number of 1/Scale degC.  The   *)
(* C code computes in binary32; quotients are truncated to 1/Scale here.   *)
(* Column vectors are functions on 0..31, as the C arrays are indexed.     *)
(***************************************************************************)
EXTENDS Integers, Sequences, FiniteSets, TLC

\* ------------------------------------------------------------- constants
SENSOR_WIDTH == 32
SENSOR_HEIGHT == 24
MIDDLE_ROWS == 4
START_ROW == 10

\* fixed-point unit: 1 degC == Scale
Scale == 1000

\* bound of the model: frames the driver loop processes
MaxFrames == 3

\* DetectionConfig config = { ... }
config ==
    [ min_temp               |-> 0 * Scale,
      max_temp               |-> 180 * Scale,
      brake_temp_threshold   |-> 180 * Scale,
      mad_uniform_threshold  |-> Scale \div 2,       \* 0.5f
      k_floor                |-> 5 * Scale,
      k_multiplier           |-> 2,                  \* 2.0f
      delta_floor            |-> 3 * Scale,
      delta_multiplier_x10   |-> 18,                 \* 1.8f
      max_fail_count         |-> 2,
      centre_col             |-> 16,
      min_tyre_width         |-> 6,
      max_tyre_width         |-> 28,
      max_width_change_x10   |-> 3,                  \* 0.3f
      ema_alpha_x10          |-> 3,                  \* 0.3f
      persistence_frames     |-> 2 ]

Cols == 0 .. (SENSOR_WIDTH - 1)

\* ------------------------------------------------------------ arithmetic
Abs(x) == IF x < 0 THEN -x ELSE x
Max(a, b) == IF a > b THEN a ELSE b
Min(a, b) == IF a < b THEN a ELSE b

\* C integer division and float-to-int conversion truncate toward zero
CDiv(a, b) == IF a >= 0 THEN a \div b ELSE -((-a) \div b)

\* ---------------------------------------------------------------- frames
\* A frame is the 768-element row-major array mlx_temps; the model draws
\* it from a family: a band of columns lo..hi at temperature hot between a
\* left and a right background, and at most one saturated pixel (spike)
\* at band row sr, column sc.
Frame(bgl, bgr, lo, hi, hot, sr, sc) ==
    [bgl |-> bgl, bgr |-> bgr, lo |-> lo, hi |-> hi, hot |-> hot,
     sr |-> sr, sc |-> sc]

NoFrame == Frame(0, 0, 0, -1, 0, -1, 0)

SpikeTemp == 250 * Scale

\* frame[idx], idx = row * SENSOR_WIDTH + col
Pixel(f, idx) ==
    LET row == idx \div SENSOR_WIDTH
        col == idx % SENSOR_WIDTH
    IN  IF f.sr >= 0 /\ row = START_ROW + f.sr /\ col = f.sc THEN SpikeTemp
        ELSE IF col >= f.lo /\ col <= f.hi THEN f.hot * Scale
        ELSE IF col < f.lo THEN f.bgl * Scale
        ELSE f.bgr * Scale

Frames ==
    { Frame(20, 21, 15, 16, 27, -1, 0),     \* narrow band
      Frame(20, 21, 11, 20, 27, -1, 0),     \* medium band
      Frame(20, 21, 4, 27, 27, -1, 0),      \* wide band
      Frame(20, 20, 0, -1, 20, -1, 0),      \* uniform scene
      Frame(20, 21, 11, 20, 27, 1, 14),     \* medium band, saturated pixel
      Frame(30, 31, 11, 20, 14, -1, 0),     \* cold band on warm ground
      Frame(20, 21, 15, 17, 27, -1, 0),     \* band of three columns
      Frame(20, 40, 16, 17, 30, -1, 0) }    \* step across the centre

\* Op applied to the value of v.  TLC evaluates a definition each time it is
\* used and a function constructor each time it is applied; a value bound
\* by a quantifier is computed once.
Bind(v, Op(_)) == CHOOSE r \in {Op(x) : x \in {v}} : TRUE

\* ------------------------------------------------------------ statistics
\* Element k (0-based) of the ascending sort of the values f[i], i \in D.
Kth(f, D, k) ==
    CHOOSE v \in {f[i] : i \in D} :
        /\ Cardinality({i \in D : f[i] < v}) <= k
        /\ k < Cardinality({i \in D : f[i] <= v})

\* quick_select_median over the n = |D| values f[i]
quick_select_median(f, D) ==
    Bind(f, LAMBDA arr :
        LET n == Cardinality(D)
        IN  IF n = 0 THEN 0
            ELSE IF n = 1 THEN arr[CHOOSE i \in D : TRUE]
            ELSE IF n % 2 = 0
                 THEN CDiv(Kth(arr, D, n \div 2 - 1) + Kth(arr, D, n \div 2), 2)
                 ELSE Kth(arr, D, n \div 2))

calculate_median(f, D) == quick_select_median(f, D)

\* mad * 1.4826f
MadScale(m) == CDiv(m * 14826, 10000)

calculate_mad(f, D) ==
    IF Cardinality(D) = 0 THEN 0
    ELSE Bind(f, LAMBDA data :
         Bind(calculate_median(data, D), LAMBDA median :
            LET deviations == [i \in D |-> Abs(data[i] - median)]
            IN  MadScale(calculate_median(deviations, D))))

\* ------------------------------------------------------ signal conditioning
\* remove_hot_pixels: in place, left to right, so a replaced pixel is the
\* left neighbour of the next one
RECURSIVE hot_pixels_from(_, _, _)
hot_pixels_from(r, i, width) ==
    Bind(r, LAMBDA row :
        IF i >= width THEN row
        ELSE IF row[i] > config.brake_temp_threshold
             THEN LET count == (IF i > 0 THEN 1 ELSE 0) + (IF i < width - 1 THEN 1 ELSE 0)
                      neighbors == [j \in 0 .. (count - 1) |->
                                       IF j = 0 /\ i > 0 THEN row[i - 1] ELSE row[i + 1]]
                  IN  IF count > 0
                      THEN hot_pixels_from(
                              [row EXCEPT ![i] = calculate_median(neighbors, 0 .. (count - 1))],
                              i + 1, width)
                      ELSE hot_pixels_from(row, i + 1, width)
             ELSE hot_pixels_from(row, i + 1, width))

\* the pass with an interior hot pixel taking its left neighbour alone
remove_hot_pixels_left_only(row, width) ==
    [i \in 0 .. (width - 1) |->
        IF row[i] > config.brake_temp_threshold
        THEN (IF i > 0 THEN row[i - 1] ELSE row[i + 1])
        ELSE row[i]]

remove_hot_pixels(row, width) == hot_pixels_from(row, 0, width)

\* middle_rows[row] after memcpy from the frame and hot pixel removal
middle_rows(frame) ==
    [row \in 0 .. (MIDDLE_ROWS - 1) |->
        remove_hot_pixels(
            [col \in Cols |-> Pixel(frame, (START_ROW + row) * SENSOR_WIDTH + col)],
            SENSOR_WIDTH)]

\* 1D profile: median of each column of the band, clipped to the valid range
column_profile(middle) ==
    Bind(middle, LAMBDA rows :
        [col \in Cols |->
            Bind(calculate_median([row \in 0 .. (MIDDLE_ROWS - 1) |-> rows[row][col]],
                                  0 .. (MIDDLE_ROWS - 1)),
                 LAMBDA m :
                    IF m < config.min_temp THEN config.min_temp
                    ELSE IF m > config.max_temp THEN config.max_temp
                    ELSE m)])

median_filter_3(in, n) ==
    Bind(in, LAMBDA input :
        [i \in 0 .. (n - 1) |->
            IF i = 0
            THEN calculate_median([j \in 0 .. 1 |-> input[j]], 0 .. 1)
            ELSE IF i = n - 1
            THEN calculate_median([j \in 0 .. 1 |-> input[n - 2 + j]], 0 .. 1)
            ELSE calculate_median([j \in 0 .. 2 |-> input[i - 1 + j]], 0 .. 2)])

\* config.ema_alpha * current[i] + (1.0f - config.ema_alpha) * prev_profile[i]
ema_value(cur, prev) ==
    CDiv(config.ema_alpha_x10 * cur + (10 - config.ema_alpha_x10) * prev, 10)

\* apply_ema that blends but does not store its output
apply_ema_no_store(ts, cur, n) ==
    Bind(cur, LAMBDA current :
        IF ts.has_previous = 0
        THEN [output |-> current,
              ts     |-> [ts EXCEPT !.prev_profile = current, !.has_previous = 1]]
        ELSE Bind([i \in 0 .. (n - 1) |-> ema_value(current[i], ts.prev_profile[i])],
                  LAMBDA output : [output |-> output, ts |-> ts]))

\* apply_ema: the output and the temporal state it leaves
apply_ema(ts, cur, n) ==
    Bind(cur, LAMBDA current :
        IF ts.has_previous = 0
        THEN [output |-> current,
              ts     |-> [ts EXCEPT !.prev_profile = current, !.has_previous = 1]]
        ELSE Bind([i \in 0 .. (n - 1) |-> ema_value(current[i], ts.prev_profile[i])],
                  LAMBDA output :
                    [output |-> output,
                     ts     |-> [ts EXCEPT !.prev_profile = output]]))

\* ----------------------------------------------------------- region grower
\* One direction of the scan: i is the next column, step its direction, edge
\* the last column that passed, fail_count the failures since then.
RECURSIVE grow_scan_no_gap(_, _, _, _, _)
\* the scan ending at the first column that fails both criteria
grow_scan_no_gap(pass, i, step, edge, fail_count) ==
    IF i < 0 \/ i >= SENSOR_WIDTH THEN edge
    ELSE IF pass[i] THEN grow_scan_no_gap(pass, i + step, step, i, 0)
    ELSE edge

RECURSIVE grow_scan(_, _, _, _, _)
grow_scan(pass, i, step, edge, fail_count) ==
    IF i < 0 \/ i >= SENSOR_WIDTH THEN edge
    ELSE IF pass[i] THEN grow_scan(pass, i + step, step, i, 0)
    ELSE IF fail_count + 1 > config.max_fail_count THEN edge
    ELSE grow_scan(pass, i + step, step, edge, fail_count + 1)

\* the dual criteria of grow_region for every column
grow_criteria(profile, median_temp, mad_global) ==
    LET centre == config.centre_col
        centre_temp == profile[centre]
        delta == Max(config.delta_floor,
                     CDiv(config.delta_multiplier_x10 * mad_global, 10))
        inverted == centre_temp < median_temp - delta
        local_start == IF centre - 2 >= 0 THEN centre - 2 ELSE 0
        local_end == IF centre + 2 < SENSOR_WIDTH THEN centre + 2 ELSE SENSOR_WIDTH - 1
    IN  Bind(calculate_mad([i \in local_start .. local_end |-> profile[i]],
                           local_start .. local_end),
             LAMBDA local_mad :
                LET k == Max(config.k_floor, config.k_multiplier * local_mad)
                IN  [i \in Cols |->
                        LET temp == profile[i]
                            within_k == Abs(temp - centre_temp) <= k
                            global_ok == IF inverted
                                         THEN temp <= median_temp - delta
                                         ELSE temp >= median_temp + delta
                        IN  within_k \/ global_ok])

grow_region(profile, median_temp, mad_global) ==
    Bind(grow_criteria(profile, median_temp, mad_global), LAMBDA pass :
        LET centre == config.centre_col
        IN  [left  |-> grow_scan(pass, centre - 1, -1, centre, 0),
             right |-> grow_scan(pass, centre + 1, 1, centre, 0)])

\* ------------------------------------------------------------- stabilizer
\* the final clamp with the test on left dropped
ClampSpan_right_only(left, right) ==
    [left  |-> left,
     right |-> IF right >= SENSOR_WIDTH THEN SENSOR_WIDTH - 1 ELSE right]

\* if (*left < 0) *left = 0; if (*right >= SENSOR_WIDTH) *right = SENSOR_WIDTH - 1;
ClampSpan(left, right) ==
    [left  |-> IF left < 0 THEN 0 ELSE left,
     right |-> IF right >= SENSOR_WIDTH THEN SENSOR_WIDTH - 1 ELSE right]

\* the geometry clamp with the shrink branch measured against min_tyre_width
apply_geometry_shrink_to_min(left, right) ==
    LET width == right - left + 1
        shrink == CDiv(width - config.min_tyre_width, 2)
    IN  IF width > config.min_tyre_width
        THEN ClampSpan(left + shrink, right - shrink)
        ELSE ClampSpan(left, right)

apply_geometry_constraints(left, right) ==
    LET width == right - left + 1
        expand == CDiv(config.min_tyre_width - width, 2)
        l1 == left - expand
        r1 == right + expand
        \* if (*left < 0) { *right += (-*left); *left = 0; }
        l2 == IF l1 < 0 THEN 0 ELSE l1
        r2 == IF l1 < 0 THEN r1 + (-l1) ELSE r1
        \* if (*right >= SENSOR_WIDTH) { *left -= ...; *right = SENSOR_WIDTH - 1; }
        l3 == IF r2 >= SENSOR_WIDTH THEN l2 - (r2 - SENSOR_WIDTH + 1) ELSE l2
        r3 == IF r2 >= SENSOR_WIDTH THEN SENSOR_WIDTH - 1 ELSE r2
        lmin == IF width < config.min_tyre_width THEN l3 ELSE left
        rmin == IF width < config.min_tyre_width THEN r3 ELSE right
        shrink == CDiv(width - config.max_tyre_width, 2)
        lmax == IF width > config.max_tyre_width THEN lmin + shrink ELSE lmin
        rmax == IF width > config.max_tyre_width THEN rmin - shrink ELSE rmin
    IN  ClampSpan(lmax, rmax)

\* the history slot apply_temporal_constraints reads as "previous"
temporal_prev_slot == 0

apply_temporal_constraints(ts, left, right) ==
    IF ts.prev_detection_count = 0
    THEN [left |-> left, right |-> right, prev_width |-> 0]
    ELSE LET prev_left == ts.prev_detections[temporal_prev_slot][0]
             prev_right == ts.prev_detections[temporal_prev_slot][1]
             prev_width == prev_right - prev_left + 1
             current_width == right - left + 1
             \* max_change = prev_width * 0.3f, kept as tenths
             max_change_x10 == prev_width * config.max_width_change_x10
             grow == 10 * current_width > 10 * prev_width + max_change_x10
             target_up == CDiv(10 * prev_width + max_change_x10, 10)
             shrink == CDiv(current_width - target_up, 2)
             l1 == IF grow THEN left + shrink ELSE left
             r1 == IF grow THEN right - shrink ELSE right
             \* the second test still reads current_width, not the shrunk span
             less == 10 * current_width < 10 * prev_width - max_change_x10
             target_down == CDiv(10 * prev_width - max_change_x10, 10)
             expand == CDiv(target_down - current_width, 2)
             l2 == IF less THEN l1 - expand ELSE l1
             r2 == IF less THEN r1 + expand ELSE r1
             c == ClampSpan(l2, r2)
         IN  [left |-> c.left, right |-> c.right, prev_width |-> prev_width]

\* the buffer update with slot 0 left as it was
shift_history_keep_oldest(pd, left, right) ==
    [i \in 0 .. 1 |-> IF i = 0 THEN pd[0]
                      ELSE [j \in 0 .. 1 |-> IF j = 0 THEN left ELSE right]]

\* prev_detections with slot 1 moved to slot 0 and (left, right) in slot 1
shift_history(pd, left, right) ==
    [i \in 0 .. 1 |-> IF i = 0 THEN pd[1]
                      ELSE [j \in 0 .. 1 |-> IF j = 0 THEN left ELSE right]]

RECURSIVE weighted_sum(_, _, _)
\* sum over i < n of prev_detections[i][j] * (i + 1)^2
weighted_sum(pd, j, n) ==
    IF n = 0 THEN 0 ELSE weighted_sum(pd, j, n - 1) + pd[n - 1][j] * n * n

\* the weights of the stored entries taken as linear, 1 + 2 + .. + n
weight_total_linear(n) == (n * (n + 1)) \div 2

RECURSIVE weight_total(_)
\* sum over i < n of (i + 1)^2
weight_total(n) == IF n = 0 THEN 0 ELSE weight_total(n - 1) + n * n

\* apply_persistence keeping the incoming span, not the smoothed one, as
\* the newest stored detection
apply_persistence_store_incoming(ts, left, right) ==
    IF ts.prev_detection_count < config.persistence_frames
    THEN [left  |-> left,
          right |-> right,
          ts    |-> [ts EXCEPT
                        !.prev_detections[ts.prev_detection_count] =
                            [j \in 0 .. 1 |-> IF j = 0 THEN left ELSE right],
                        !.prev_detection_count = ts.prev_detection_count + 1]]
    ELSE LET pf == config.persistence_frames
             current_weight == (pf + 1) * (pf + 1)
             total_weight == weight_total(pf) + current_weight
             weighted_left == weighted_sum(ts.prev_detections, 0, pf) + left * current_weight
             weighted_right == weighted_sum(ts.prev_detections, 1, pf) + right * current_weight
         IN  [left  |-> CDiv(weighted_left, total_weight),
              right |-> CDiv(weighted_right, total_weight),
              ts    |-> [ts EXCEPT
                            !.prev_detections =
                                shift_history(ts.prev_detections, left, right)]]

apply_persistence(ts, left, right) ==
    IF ts.prev_detection_count < config.persistence_frames
    THEN [left  |-> left,
          right |-> right,
          ts    |-> IF ts.prev_detection_count < 2
                    THEN [ts EXCEPT
                            !.prev_detections[ts.prev_detection_count] =
                                [j \in 0 .. 1 |-> IF j = 0 THEN left ELSE right],
                            !.prev_detection_count = ts.prev_detection_count + 1]
                    ELSE [ts EXCEPT
                            !.prev_detections = shift_history(ts.prev_detections, left, right)]]
    ELSE LET pf == config.persistence_frames
             current_weight == (pf + 1) * (pf + 1)
             total_weight == weight_total(pf) + current_weight
             weighted_left == weighted_sum(ts.prev_detections, 0, pf) + left * current_weight
             weighted_right == weighted_sum(ts.prev_detections, 1, pf) + right * current_weight
             new_left == CDiv(weighted_left, total_weight)
             new_right == CDiv(weighted_right, total_weight)
         IN  [left  |-> new_left,
              right |-> new_right,
              ts    |-> [ts EXCEPT
                            !.prev_detections =
                                shift_history(ts.prev_detections, new_left, new_right)]]

\* ---------------------------------------------------------- zone analyzer
\* ZoneStats after memset(stats, 0, ...); the std field (a square root of
\* the same pixels) is not carried
ZeroStats == [avg |-> 0, median |-> 0, mad |-> 0, min |-> 0, max |-> 0, range |-> 0]

\* TyreData after memset(&tyre, 0, sizeof(TyreData))
ZeroTyre ==
    [left |-> ZeroStats, centre |-> ZeroStats, right |-> ZeroStats,
     detected |-> 0, span_start |-> 0, span_end |-> 0, tyre_width |-> 0,
     confidence |-> 0, lateral_gradient |-> 0]

RECURSIVE SumOf(_, _, _)
\* sum of f[i] over i \in D, by distinct value (vals = the values left to add)
SumOf(f, D, vals) ==
    IF vals = {} THEN 0
    ELSE LET v == CHOOSE x \in vals : TRUE
         IN  v * Cardinality({i \in D : f[i] = v}) + SumOf(f, D, vals \ {v})

\* the frame indices calculate_zone_stats collects for columns left..right
zone_pixels(left, right) ==
    { row * SENSOR_WIDTH + col :
        row \in START_ROW .. (START_ROW + MIDDLE_ROWS - 1),
        col \in left .. Min(right, SENSOR_WIDTH - 1) }

calculate_zone_stats(frame, left, right) ==
    Bind(zone_pixels(left, right), LAMBDA D :
    Bind([idx \in D |-> Pixel(frame, idx)], LAMBDA pixels :
        LET count == Cardinality(D)
        IN  IF count = 0 THEN ZeroStats
            ELSE Bind(<<Kth(pixels, D, 0), Kth(pixels, D, count - 1)>>, LAMBDA mm :
                    [avg    |-> CDiv(SumOf(pixels, D, {pixels[i] : i \in D}), count),
                     median |-> calculate_median(pixels, D),
                     mad    |-> calculate_mad(pixels, D),
                     min    |-> mm[1],
                     max    |-> mm[2],
                     range  |-> mm[2] - mm[1]])))

\* the split with the centre zone starting one column late
split_thirds_gap(left, right) ==
    LET third == CDiv(right - left + 1, 3)
    IN  [left   |-> <<left, left + third - 1>>,
         centre |-> <<left + third + 1, right - third>>,
         right  |-> <<right - third + 1, right>>]

\* the three column ranges analyze_tyre hands to calculate_zone_stats
split_thirds(left, right) ==
    LET third == CDiv(right - left + 1, 3)
        left_start == left
        left_end == IF left + third - 1 < left_start THEN left_start ELSE left + third - 1
        centre_start == left + third
        centre_end == IF right - third < centre_start THEN centre_start ELSE right - third
        right_end == right
        right_start == IF right - third + 1 > right_end THEN right_end ELSE right - third + 1
    IN  [left   |-> <<left_start, left_end>>,
         centre |-> <<centre_start, centre_end>>,
         right  |-> <<right_start, right_end>>]

\* the uniform branch with the remainder columns left out of the right zone
uniform_thirds_short ==
    LET third == SENSOR_WIDTH \div 3
    IN  [left   |-> <<0, third - 1>>,
         centre |-> <<third, 2 * third - 1>>,
         right  |-> <<2 * third, 3 * third - 1>>]

\* the three column ranges of the uniform branch of detect_tyre
uniform_thirds ==
    LET third == SENSOR_WIDTH \div 3
    IN  [left   |-> <<0, third - 1>>,
         centre |-> <<third, 2 * third - 1>>,
         right  |-> <<2 * third, SENSOR_WIDTH - 1>>]

NoZones == [left |-> <<0, 0>>, centre |-> <<0, 0>>, right |-> <<0, 0>>]

\* analyze_tyre, lines 446-449: the span fields of the result
span_fields(result, left, right) ==
    [result EXCEPT !.detected = 1, !.span_start = left, !.span_end = right,
                   !.tyre_width = right - left + 1]

\* max - min of profile[left .. right] (profile[left] alone if right < left)
gradient_of(profile, left, right) ==
    LET span == {left} \cup (left .. right)
    IN  Kth(profile, span, Cardinality(span) - 1) - Kth(profile, span, 0)

\* analyze_tyre with the two scores added and not averaged
analyze_tyre_score_sum(frame, profile, left, right, result) ==
    Bind(span_fields(result, left, right), LAMBDA r1 :
    Bind(split_thirds(left, right), LAMBDA z :
    Bind(gradient_of(profile, left, right), LAMBDA lateral_gradient :
        LET width_score == IF r1.tyre_width >= config.min_tyre_width
                              /\ r1.tyre_width <= config.max_tyre_width
                           THEN Scale ELSE Scale \div 2
            gradient_score == Min(CDiv(lateral_gradient, 10), Scale)
        IN  [r1 EXCEPT
                !.left = calculate_zone_stats(frame, z.left[1], z.left[2]),
                !.centre = calculate_zone_stats(frame, z.centre[1], z.centre[2]),
                !.right = calculate_zone_stats(frame, z.right[1], z.right[2]),
                !.lateral_gradient = lateral_gradient,
                !.confidence = width_score + gradient_score])))

analyze_tyre(frame, profile, left, right, result) ==
    Bind(span_fields(result, left, right), LAMBDA r1 :
    Bind(split_thirds(left, right), LAMBDA z :
    Bind(gradient_of(profile, left, right), LAMBDA lateral_gradient :
        LET width_score == IF r1.tyre_width >= config.min_tyre_width
                              /\ r1.tyre_width <= config.max_tyre_width
                           THEN Scale ELSE Scale \div 2
            gradient_score == Min(CDiv(lateral_gradient, 10), Scale)
        IN  [r1 EXCEPT
                !.left = calculate_zone_stats(frame, z.left[1], z.left[2]),
                !.centre = calculate_zone_stats(frame, z.centre[1], z.centre[2]),
                !.right = calculate_zone_stats(frame, z.right[1], z.right[2]),
                !.lateral_gradient = lateral_gradient,
                !.confidence = CDiv(width_score + gradient_score, 2)])))

\* -------------------------------------------------------------- pipeline
Span(l, r) == [left |-> l, right |-> r]
NoSpan == Span(0, 0)

\* the stabilizer chain of detect_tyre (lines 550-552) on a grown span:
\* the span after each stage and the temporal state left behind
stabilize(ts, grown) ==
    Bind(apply_geometry_constraints(grown.left, grown.right), LAMBDA geo :
    Bind(apply_temporal_constraints(ts, geo.left, geo.right), LAMBDA tc :
    Bind(apply_persistence(ts, tc.left, tc.right), LAMBDA p :
        [geo |-> geo, tc |-> Span(tc.left, tc.right), prev_width |-> tc.prev_width,
         out |-> Span(p.left, p.right), ts |-> p.ts])))

\* Locals of the last detect_tyre call: the filtered and smoothed profiles,
\* the global statistics, whether the uniformity gate returned early, left
\* and right after grow_region (grown), apply_geometry_constraints (geo),
\* apply_temporal_constraints (tc) and apply_persistence (out), prev_width
\* as apply_temporal_constraints computed it (0 when it returned early),
\* the column ranges handed to calculate_zone_stats, and middle_rows after
\* hot pixel removal (rows).
NoLocals ==
    [rows |-> [row \in 0 .. (MIDDLE_ROWS - 1) |-> [col \in Cols |-> 0]],
     filtered |-> [i \in Cols |-> 0], smoothed |-> [i \in Cols |-> 0],
     median_temp |-> 0, mad_global |-> 0, uniform |-> FALSE,
     grown |-> NoSpan, geo |-> NoSpan, tc |-> NoSpan, out |-> NoSpan,
     prev_width |-> 0, zones |-> NoZones]

\* detect_tyre with the uniform branch recording the full sensor width as a
\* detection before it returns
detect_gate_uniform_stored(frame, rows, result, filtered, ema, median_temp, mad_global) ==
    LET smoothed == ema.output
        loc == [NoLocals EXCEPT !.rows = rows,
                                !.filtered = filtered, !.smoothed = smoothed,
                                !.median_temp = median_temp, !.mad_global = mad_global]
    IN  IF mad_global < config.mad_uniform_threshold
        THEN [ret    |-> 0,
              ts     |-> apply_persistence(ema.ts, 0, SENSOR_WIDTH - 1).ts,
              result |-> [result EXCEPT !.detected = 0],
              locals |-> [loc EXCEPT !.uniform = TRUE, !.zones = uniform_thirds]]
        ELSE Bind(grow_region(smoothed, median_temp, mad_global), LAMBDA grown :
             Bind(stabilize(ema.ts, grown), LAMBDA st :
                [ret    |-> 1,
                 ts     |-> st.ts,
                 result |-> analyze_tyre(frame, smoothed, st.out.left, st.out.right, result),
                 locals |-> [loc EXCEPT !.grown = grown, !.geo = st.geo, !.tc = st.tc,
                                        !.out = st.out, !.prev_width = st.prev_width,
                                        !.zones = split_thirds(st.out.left, st.out.right)]]))

\* detect_tyre(frame, result): return value, result, temporal state, locals
\* detect_tyre from the uniformity gate on (lines 523-557)
detect_gate(frame, rows, result, filtered, ema, median_temp, mad_global) ==
    LET smoothed == ema.output
        loc == [NoLocals EXCEPT !.rows = rows,
                                !.filtered = filtered, !.smoothed = smoothed,
                                !.median_temp = median_temp, !.mad_global = mad_global]
    IN  IF mad_global < config.mad_uniform_threshold
        THEN LET z == uniform_thirds
             IN  [ret    |-> 0,
                  ts     |-> ema.ts,
                  result |-> [result EXCEPT
                                !.detected = 0,
                                !.left = calculate_zone_stats(frame, z.left[1], z.left[2]),
                                !.centre = calculate_zone_stats(frame, z.centre[1], z.centre[2]),
                                !.right = calculate_zone_stats(frame, z.right[1], z.right[2]),
                                !.tyre_width = 0,
                                !.confidence = 0,
                                !.lateral_gradient = 0],
                  locals |-> [loc EXCEPT !.uniform = TRUE, !.zones = z]]
        ELSE Bind(grow_region(smoothed, median_temp, mad_global), LAMBDA grown :
             Bind(stabilize(ema.ts, grown), LAMBDA st :
                [ret    |-> 1,
                 ts     |-> st.ts,
                 result |-> analyze_tyre(frame, smoothed, st.out.left, st.out.right, result),
                 locals |-> [loc EXCEPT !.grown = grown, !.geo = st.geo, !.tc = st.tc,
                                        !.out = st.out, !.prev_width = st.prev_width,
                                        !.zones = split_thirds(st.out.left, st.out.right)]]))

detect_tyre(ts, frame, result) ==
    Bind(middle_rows(frame), LAMBDA rows :
    Bind(column_profile(rows), LAMBDA profile :
    Bind(median_filter_3(profile, SENSOR_WIDTH), LAMBDA filtered :
    Bind(apply_ema(ts, filtered, SENSOR_WIDTH), LAMBDA ema :
    Bind(calculate_median(ema.output, Cols), LAMBDA median_temp :
    Bind(calculate_mad(ema.output, Cols), LAMBDA mad_global :
        detect_gate(frame, rows, result, filtered, ema, median_temp, mad_global)))))))

\* ------------------------------------------- thermal_algorithm.c (driver)
\* ThermalConfig as thermal_algorithm_init fills it (ratios in tenths)
thermal_config ==
    [mad_threshold_x10 |-> 30,
     grad_threshold    |-> 5 * Scale,
     min_tyre_width    |-> 6,
     max_tyre_width    |-> 28,
     ema_alpha_x10     |-> 3]

\* ZoneAnalysis after memset(result, 0, sizeof(ZoneAnalysis))
ZeroZone ==
    [avg |-> 0, median |-> 0, mad |-> 0, min |-> 0, max |-> 0, range |-> 0, count |-> 0]

\* FrameData after memset(&result, 0, sizeof(result))
ZeroFrameData ==
    [frame_number |-> 0,
     left |-> ZeroZone, centre |-> ZeroZone, right |-> ZeroZone,
     detection |-> [span_start |-> 0, span_end |-> 0, tyre_width |-> 0,
                    confidence |-> 0, detected |-> FALSE],
     lateral_gradient |-> 0,
     warnings |-> 0]

fast_mean(f, D) ==
    IF D = {} THEN 0
    ELSE CDiv(SumOf(f, D, {f[i] : i \in D}), Cardinality(D))

fast_median(f, D) ==
    LET len == Cardinality(D)
    IN  IF len = 0 THEN 0
        ELSE IF len = 1 THEN f[CHOOSE i \in D : TRUE]
        ELSE IF len % 2 = 0
             THEN CDiv(Kth(f, D, len \div 2 - 1) + Kth(f, D, len \div 2), 2)
             ELSE Kth(f, D, len \div 2)

fast_mad(f, D, median) ==
    IF Cardinality(D) < 2 \/ Cardinality(D) > SENSOR_WIDTH THEN 0
    ELSE Bind([i \in D |-> Abs(f[i] - median)], LAMBDA deviations :
            MadScale(fast_median(deviations, D)))

\* the average of the valid pixels of rows 10..13 in each column
extract_middle_rows(frame) ==
    [col \in Cols |->
        LET valid == { idx \in { row * SENSOR_WIDTH + col : row \in 10 .. 13 } :
                         Pixel(frame, idx) > -270 * Scale }
            temps == [idx \in valid |-> Pixel(frame, idx)]
        IN  IF valid = {} THEN 0
            ELSE CDiv(SumOf(temps, valid, {temps[idx] : idx \in valid}),
                      Cardinality(valid))]

RECURSIVE grow_span(_, _, _, _, _)
\* the loops at lines 119-134: from column i in direction step while the
\* profile is above threshold; edge is the last column taken
grow_span(profile, threshold, i, step, edge) ==
    IF i < 0 \/ i >= SENSOR_WIDTH THEN edge
    ELSE IF profile[i] > threshold
         THEN grow_span(profile, threshold, i + step, step, i)
         ELSE edge

\* the first column holding the largest value above -300, else the centre
seed_column(profile) ==
    LET above == {i \in Cols : profile[i] > -300 * Scale}
    IN  IF above = {} THEN SENSOR_WIDTH \div 2
        ELSE CHOOSE i \in above :
                \A j \in above : profile[j] < profile[i] \/ (profile[j] = profile[i] /\ i <= j)

\* detect_tyre_span reporting the measured span when validation fails
detect_tyre_span_keep_span(profile, cfg) ==
    Bind(fast_median(profile, Cols), LAMBDA profile_median :
    Bind(fast_mad(profile, Cols, profile_median), LAMBDA profile_mad :
    Bind(seed_column(profile), LAMBDA seed_idx :
        LET threshold == profile_median + CDiv(cfg.mad_threshold_x10 * profile_mad, 10)
            start == grow_span(profile, threshold, seed_idx - 1, -1, seed_idx)
            end == grow_span(profile, threshold, seed_idx + 1, 1, seed_idx)
            width == end - start + 1
            detected == /\ width >= cfg.min_tyre_width
                        /\ width <= cfg.max_tyre_width
                        /\ profile_mad > Scale \div 2
            width_score_x10 == IF width >= 8 /\ width <= 24 THEN 10 ELSE 7
            mad_score == Min(CDiv(profile_mad, 3), Scale)
        IN  [span_start |-> start, span_end |-> end, tyre_width |-> width,
             confidence |-> IF detected THEN CDiv(width_score_x10 * mad_score, 10) ELSE 0,
             detected |-> detected])))

detect_tyre_span(profile, cfg) ==
    Bind(fast_median(profile, Cols), LAMBDA profile_median :
    Bind(fast_mad(profile, Cols, profile_median), LAMBDA profile_mad :
    Bind(seed_column(profile), LAMBDA seed_idx :
        LET threshold == profile_median + CDiv(cfg.mad_threshold_x10 * profile_mad, 10)
            start == grow_span(profile, threshold, seed_idx - 1, -1, seed_idx)
            end == grow_span(profile, threshold, seed_idx + 1, 1, seed_idx)
            width == end - start + 1
            detected == /\ width >= cfg.min_tyre_width
                        /\ width <= cfg.max_tyre_width
                        /\ profile_mad > Scale \div 2
            width_score_x10 == IF width >= 8 /\ width <= 24 THEN 10 ELSE 7
            mad_score == Min(CDiv(profile_mad, 3), Scale)
        IN  IF detected
            THEN [span_start |-> start, span_end |-> end, tyre_width |-> width,
                  confidence |-> CDiv(width_score_x10 * mad_score, 10),
                  detected |-> TRUE]
            ELSE [span_start |-> 0, span_end |-> SENSOR_WIDTH - 1,
                  tyre_width |-> SENSOR_WIDTH, confidence |-> 0,
                  detected |-> FALSE])))

analyze_zone(profile, start, end) ==
    LET s == IF start < 0 THEN 0 ELSE start
        e == IF end >= SENSOR_WIDTH THEN SENSOR_WIDTH - 1 ELSE end
        len == e - s + 1
    IN  IF len <= 0 \/ len > SENSOR_WIDTH THEN ZeroZone
        ELSE Bind(s .. e, LAMBDA D :
             Bind(fast_median(profile, D), LAMBDA median :
             Bind(<<Kth(profile, D, 0), Kth(profile, D, len - 1)>>, LAMBDA mm :
                [avg    |-> fast_mean(profile, D),
                 median |-> median,
                 mad    |-> fast_mad(profile, D, median),
                 min    |-> mm[1],
                 max    |-> mm[2],
                 range  |-> mm[2] - mm[1],
                 count  |-> len])))

\* thermal_algorithm_process with frame_counter already incremented to number
thermal_algorithm_process(frame, result, cfg, number) ==
    Bind(extract_middle_rows(frame), LAMBDA profile :
    Bind(detect_tyre_span(profile, cfg), LAMBDA detection :
        LET r0 == [result EXCEPT !.frame_number = number, !.warnings = 0,
                                 !.detection = detection]
        IN  IF detection.detected
            THEN LET third == detection.tyre_width \div 3
                     left_end == detection.span_start + third - 1
                     centre_end == detection.span_end - third
                 IN  Bind(analyze_zone(profile, detection.span_start, left_end), LAMBDA left :
                     Bind(analyze_zone(profile, left_end + 1, centre_end), LAMBDA centre :
                     Bind(analyze_zone(profile, centre_end + 1, detection.span_end), LAMBDA right :
                         LET gradient == right.avg - left.avg
                             w1 == IF Abs(gradient) > 10 * Scale THEN 1 ELSE 0
                             w2 == IF centre.max - centre.min > 20 * Scale THEN 2 ELSE 0
                         IN  [r0 EXCEPT !.left = left, !.centre = centre, !.right = right,
                                        !.lateral_gradient = gradient,
                                        !.warnings = w1 + w2])))
            ELSE [r0 EXCEPT !.centre = analyze_zone(profile, 0, SENSOR_WIDTH - 1),
                            !.left = ZeroZone, !.right = ZeroZone,
                            !.lateral_gradient = 0]))

\* ------------------------------------------------------------ i2c_slave.c
REG_CONFIG_START == 0
REG_I2C_ADDRESS == 0
REG_OUTPUT_MODE == 1
REG_FALLBACK_MODE == 3
REG_EMISSIVITY == 4
REG_RAW_MODE == 5
REG_RESERVED_0F == 15
REG_FIRMWARE_VERSION == 16
REG_FRAME_NUMBER_L == 17
REG_FRAME_NUMBER_H == 18
REG_FPS == 19
REG_DETECTED == 20
REG_CONFIDENCE == 21
REG_TYRE_WIDTH == 22
REG_SPAN_START == 23
REG_SPAN_END == 24
REG_WARNINGS == 25
REG_LEFT_MEDIAN_L == 32
REG_CENTRE_MEDIAN_L == 34
REG_RIGHT_MEDIAN_L == 36
REG_LEFT_AVG_L == 38
REG_CENTRE_AVG_L == 40
REG_RIGHT_AVG_L == 42
REG_LATERAL_GRADIENT_L == 44
REG_RAW_CH0_L == 48
REG_FRAME_DATA_START == 65
REG_CMD == 255
CMD_RESET == 1
CMD_CLEAR_WARNINGS == 2
I2C_SLAVE_DEFAULT_ADDR == 8
OUTPUT_MODE_USB_SERIAL == 0
OUTPUT_MODE_ALL == 255

Bytes == 0 .. 255

\* (uint8_t)v for an integer v
U8(v) == v % 256

\* the low and the high byte of the int16_t v: v & 0xFF, (v >> 8) & 0xFF
LowByte(v) == v % 256
HighByte(v) == (v % 65536) \div 256

\* temp_to_int16_tenths of a finite temperature: (int16_t)(temp * 10.0f)
temp_to_int16_tenths(temp) == CDiv(temp * 10, Scale)

\* I2CSlaveState and register_map after i2c_slave_init(address)
InitSlaveState(address) ==
    [slave_address |-> address, output_mode |-> OUTPUT_MODE_USB_SERIAL,
     current_register |-> 255, frame_read_offset |-> 0, enabled |-> TRUE]

InitRegisterMap(address) ==
    [r \in Bytes |->
        IF r = REG_FIRMWARE_VERSION THEN 1
        ELSE IF r = REG_I2C_ADDRESS THEN address
        ELSE IF r = REG_EMISSIVITY THEN 95
        ELSE 0]

i2c_slave_get_raw_mode(regs) == regs[REG_RAW_MODE] # 0

\* the mean of the 2 x 4 pixels of raw channel ch, rows 10..13
raw_channel(frame, ch) ==
    LET D == { row * 32 + col : row \in 10 .. 13, col \in (ch * 2) .. (ch * 2 + 1) }
        temps == [idx \in D |-> Pixel(frame, idx)]
    IN  CDiv(SumOf(temps, D, {temps[idx] : idx \in D}), 8)

\* the temperature values packed without the fallback copy
temperature_words_no_fallback(regs, data) ==
    [r \in {REG_LEFT_MEDIAN_L, REG_CENTRE_MEDIAN_L, REG_RIGHT_MEDIAN_L,
            REG_LEFT_AVG_L, REG_CENTRE_AVG_L, REG_RIGHT_AVG_L,
            REG_LATERAL_GRADIENT_L} |->
        IF r = REG_CENTRE_MEDIAN_L THEN temp_to_int16_tenths(data.centre.median)
        ELSE IF r = REG_CENTRE_AVG_L THEN temp_to_int16_tenths(data.centre.avg)
        ELSE IF r = REG_LEFT_MEDIAN_L THEN temp_to_int16_tenths(data.left.median)
        ELSE IF r = REG_RIGHT_MEDIAN_L THEN temp_to_int16_tenths(data.right.median)
        ELSE IF r = REG_LEFT_AVG_L THEN temp_to_int16_tenths(data.left.avg)
        ELSE IF r = REG_RIGHT_AVG_L THEN temp_to_int16_tenths(data.right.avg)
        ELSE temp_to_int16_tenths(data.lateral_gradient)]

\* the int16 values i2c_slave_update packs at 0x20..0x2D, by low register
temperature_words(regs, data) ==
    LET centre_med == temp_to_int16_tenths(data.centre.median)
        centre_avg == temp_to_int16_tenths(data.centre.avg)
        fallback == ~data.detection.detected /\ regs[REG_FALLBACK_MODE] = 1
    IN  [r \in {REG_LEFT_MEDIAN_L, REG_CENTRE_MEDIAN_L, REG_RIGHT_MEDIAN_L,
                REG_LEFT_AVG_L, REG_CENTRE_AVG_L, REG_RIGHT_AVG_L,
                REG_LATERAL_GRADIENT_L} |->
            IF r = REG_CENTRE_MEDIAN_L THEN centre_med
            ELSE IF r = REG_CENTRE_AVG_L THEN centre_avg
            ELSE IF r = REG_LEFT_MEDIAN_L
                 THEN (IF fallback THEN centre_med
                       ELSE temp_to_int16_tenths(data.left.median))
            ELSE IF r = REG_RIGHT_MEDIAN_L
                 THEN (IF fallback THEN centre_med
                       ELSE temp_to_int16_tenths(data.right.median))
            ELSE IF r = REG_LEFT_AVG_L
                 THEN (IF fallback THEN centre_avg
                       ELSE temp_to_int16_tenths(data.left.avg))
            ELSE IF r = REG_RIGHT_AVG_L
                 THEN (IF fallback THEN centre_avg
                       ELSE temp_to_int16_tenths(data.right.avg))
            ELSE (IF fallback THEN 0
                  ELSE temp_to_int16_tenths(data.lateral_gradient))]

\* register_map after i2c_slave_update(data, fps, frame), state.enabled set
\* and frame not NULL
i2c_slave_update(regs, data, fps, frame) ==
    Bind(temperature_words(regs, data), LAMBDA pairs :
    Bind([ch \in 0 .. 15 |-> temp_to_int16_tenths(raw_channel(frame, ch))], LAMBDA channels :
        [r \in Bytes |->
            IF r = REG_FRAME_NUMBER_L THEN data.frame_number % 256
            ELSE IF r = REG_FRAME_NUMBER_H THEN (data.frame_number \div 256) % 256
            ELSE IF r = REG_FPS THEN U8(fps)
            ELSE IF r = REG_DETECTED THEN (IF data.detection.detected THEN 1 ELSE 0)
            ELSE IF r = REG_CONFIDENCE THEN U8(CDiv(data.detection.confidence * 100, Scale))
            ELSE IF r = REG_TYRE_WIDTH THEN data.detection.tyre_width
            ELSE IF r = REG_SPAN_START THEN data.detection.span_start
            ELSE IF r = REG_SPAN_END THEN data.detection.span_end
            ELSE IF r = REG_WARNINGS THEN data.warnings
            ELSE IF r \in DOMAIN pairs THEN LowByte(pairs[r])
            ELSE IF (r - 1) \in DOMAIN pairs THEN HighByte(pairs[r - 1])
            ELSE IF r >= REG_RAW_CH0_L /\ r < REG_RAW_CH0_L + 32
                 THEN IF (r - REG_RAW_CH0_L) % 2 = 0
                      THEN LowByte(channels[(r - REG_RAW_CH0_L) \div 2])
                      ELSE HighByte(channels[(r - REG_RAW_CH0_L) \div 2])
            ELSE regs[r]]))

\* i2c_slave_handler for the interrupt status bits in intr and, with RX_FULL,
\* the byte value in data_cmd: the I2CSlaveState, the register map and the
\* byte put into data_cmd for the master (tx, unchanged without RD_REQ)
handler_rd_req(h, frame) ==
    IF h.state.current_register = REG_FRAME_DATA_START
    THEN IF frame # NoFrame /\ h.state.frame_read_offset < 768
         THEN LET idx == h.state.frame_read_offset \div 2
                  temp == temp_to_int16_tenths(Pixel(frame, idx))
              IN  [h EXCEPT !.tx = IF h.state.frame_read_offset % 2 = 0
                                   THEN LowByte(temp) ELSE HighByte(temp),
                            !.state.frame_read_offset = h.state.frame_read_offset + 1]
         ELSE [h EXCEPT !.tx = 0]
    ELSE [h EXCEPT !.tx = h.regs[h.state.current_register],
                   !.state.current_register = U8(h.state.current_register + 1)]

\* the write branch storing the byte at any register the pointer is on
handler_rx_full_any_register(h, value) ==
    LET reg == h.state.current_register
    IN  IF reg = 255
        THEN [h EXCEPT !.state.current_register = value]
        ELSE [h EXCEPT !.regs[reg] = value,
                       !.state.current_register = U8(reg + 1)]

handler_rx_full(h, value) ==
    LET reg == h.state.current_register
    IN  IF reg = 255
        THEN [h EXCEPT !.state.current_register = value,
                       !.state.frame_read_offset =
                            IF value = REG_FRAME_DATA_START THEN 0
                            ELSE h.state.frame_read_offset]
        ELSE LET written ==
                    IF reg >= REG_CONFIG_START /\ reg <= REG_RESERVED_0F
                    THEN [h EXCEPT !.regs[reg] = value,
                                   !.state.slave_address =
                                        IF reg = REG_I2C_ADDRESS THEN value % 128
                                        ELSE h.state.slave_address,
                                   !.state.output_mode =
                                        IF reg = REG_OUTPUT_MODE THEN value
                                        ELSE h.state.output_mode]
                    ELSE IF reg = REG_CMD /\ value = CMD_CLEAR_WARNINGS
                         THEN [h EXCEPT !.regs[REG_WARNINGS] = 0]
                         ELSE h
             IN  [written EXCEPT !.state.current_register = U8(reg + 1)]

handler_stop_det(h) == [h EXCEPT !.state.current_register = 255]

i2c_slave_handler(st, regs, tx, frame, intr, value) ==
    Bind([state |-> st, regs |-> regs, tx |-> tx], LAMBDA h0 :
    Bind(IF "RD_REQ" \in intr THEN handler_rd_req(h0, frame) ELSE h0, LAMBDA h1 :
    Bind(IF "RX_FULL" \in intr THEN handler_rx_full(h1, value) ELSE h1, LAMBDA h2 :
        IF "STOP_DET" \in intr THEN handler_stop_det(h2) ELSE h2)))

\* ---------------------------------------------- conversions for consumers
\* A float that may be non-finite: a finite one carries its value in 1/Scale
\* degC, a non-finite one its kind (0 NaN, 1 +Inf, -1 -Inf).
Float(m) == [finite |-> TRUE, v |-> m]
NaN == [finite |-> FALSE, v |-> 0]
PosInf == [finite |-> FALSE, v |-> 1]
NegInf == [finite |-> FALSE, v |-> -1]

isfinite(val) == val.finite

\* communication.c: if (!isfinite(val)) return 0.0f; return val;
sanitize_float(val) == IF ~isfinite(val) THEN Float(0) ELSE val

\* printf("%.1f") of a finite float, as a number of tenths: the nearest
\* tenth (the values converted here are never half way between two)
format_tenths(val) ==
    IF val.v >= 0 THEN (val.v * 10 + Scale \div 2) \div Scale
    ELSE -((-val.v * 10 + Scale \div 2) \div Scale)

\* i2c_slave.c temp_to_int16_tenths on any float:
\* if (!isfinite(temp)) return 0; return (int16_t)(temp * 10.0f);
temp_to_int16_tenths_checked(val) ==
    IF ~isfinite(val) THEN 0 ELSE temp_to_int16_tenths(val.v)

\* what a conversion of a non-finite float to an integer type can leave in
\* an int16_t: the behaviour is undefined; builds saturate to either end of
\* the int range (low 16 bits 0 or -1), saturate to int16, or give 0
UndefinedInt16 == {-32768, -1, 0, 32767}

\* communication.c update_i2c_registers: (int16_t)(x * 10.0f), the values it
\* can give
cast_int16_tenths(val) ==
    IF isfinite(val) THEN {CDiv(val.v * 10, Scale)} ELSE UndefinedInt16

\* update_i2c_registers: (t >> 8) & 0xFF, t & 0xFF
big_endian(t) == <<HighByte(t), LowByte(t)>>

\* i2c_slave_update and the frame stream: t & 0xFF, (t >> 8) & 0xFF
little_endian(t) == <<LowByte(t), HighByte(t)>>

\* ------------------------------------------------------------------ state
VARIABLES
    program,          \* the executable running: "test" (test_mlx_with_detection.c)
                      \* or "driver" (main.c)
    status,           \* int status of main: the last MLX90640_GetFrameData code
    \* test_mlx_with_detection.c
    temporal_state,   \* static TemporalState temporal_state
    tyre,             \* TyreData tyre of main
    frame_count,      \* uint32_t frame_count of main
    mlx_temps,        \* static float mlx_temps[768]
    dt,               \* locals of the last detect_tyre call
    \* main.c, thermal_algorithm.c, i2c_slave.c
    frame_counter,    \* static uint32_t frame_counter of thermal_algorithm.c
    total_frames,     \* static uint32_t total_frames of main.c
    result,           \* FrameData result of main
    mlx_frame,        \* static float mlx_frame[768] of main.c
    register_map,     \* static uint8_t register_map[256]
    state,            \* static I2CSlaveState state
    current_frame,    \* static const float *current_frame: FALSE while NULL
    tx,               \* the byte last put into data_cmd for the master
    bus,              \* the bus events of the master's transaction still to come
    \* i2c_slave.c, communication.c
    emitted           \* the temperature last converted for a consumer

test_vars == <<temporal_state, tyre, frame_count, mlx_temps, dt>>

driver_vars == <<frame_counter, total_frames, result, mlx_frame, register_map,
                 state, current_frame, tx, bus>>

vars == <<program, status, test_vars, driver_vars, emitted>>

\* nothing converted yet
NoEmission == [path |-> "none", input |-> Float(0), tenths |-> 0, bytes |-> <<>>]

\* static TemporalState temporal_state = {0}
ZeroTemporalState ==
    [prev_profile |-> [i \in Cols |-> 0],
     prev_detections |-> [i \in 0 .. 1 |-> [j \in 0 .. 1 |-> 0]],
     prev_detection_count |-> 0,
     has_previous |-> 0]

\* --------------------------------------------------- SpecDet: driver loop
\* tyre is not read before the first memset; status is 0 after start-up
InitTest ==
    /\ temporal_state = ZeroTemporalState
    /\ tyre = ZeroTyre
    /\ frame_count = 0
    /\ mlx_temps = NoFrame
    /\ dt = NoLocals

\* main.c when its loop is entered: thermal_algorithm_init, i2c_slave_init
\* and memset(&result, 0, sizeof(result)) are done
InitDriver ==
    /\ frame_counter = 0
    /\ total_frames = 0
    /\ result = ZeroFrameData
    /\ mlx_frame = NoFrame
    /\ register_map = InitRegisterMap(I2C_SLAVE_DEFAULT_ADDR)
    /\ state = InitSlaveState(I2C_SLAVE_DEFAULT_ADDR)
    /\ current_frame = FALSE
    /\ tx = 0
    /\ bus = <<>>

InitDet ==
    /\ emitted = NoEmission
    /\ program = "test"
    /\ status = 0
    /\ InitTest
    /\ InitDriver

\* MLX90640_GetFrameData failed: printf, sleep_ms(100), continue
FrameReadFailed ==
    /\ program = "test"
    /\ \E code \in {-1, -8} : status' = code
    /\ UNCHANGED <<program, emitted, test_vars, driver_vars>>

\* a frame was read: CalculateTo, memset(&tyre), detect_tyre, frame_count++
FrameProcessed ==
    /\ program = "test"
    /\ frame_count < MaxFrames
    /\ UNCHANGED <<program, emitted, driver_vars>>
    /\ \E f \in Frames :
        \E d \in {detect_tyre(temporal_state, f, ZeroTyre)} :
            /\ status' = 0
            /\ mlx_temps' = f
            /\ temporal_state' = d.ts
            /\ tyre' = d.result
            /\ dt' = d.locals
            /\ frame_count' = frame_count + 1

NextDet == FrameReadFailed \/ FrameProcessed

SpecDet == InitDet /\ [][NextDet]_vars

\* ------------------------------------------------- claims on the pipeline
\* a step of FrameProcessed
Processed == frame_count' = frame_count + 1

\* the newest span in the detection history of ts
last_stored(ts) == ts.prev_detections[ts.prev_detection_count - 1]

width_of(d) == d[1] - d[0] + 1

\* C1: whenever the pipeline has reported detected = false for a frame, the
\* result holds the neutral span: span_start = 0, span_end = 31 and
\* confidence = 0.
C1_NeutralWhenNotDetected ==
    (frame_count > 0 /\ tyre.detected = 0) =>
        /\ tyre.span_start = 0
        /\ tyre.span_end = SENSOR_WIDTH - 1
        /\ tyre.confidence = 0

\* C2: for two consecutive processed frames that both reach the stabilizer,
\* the width coming out of apply_temporal_constraints on the second differs
\* from the width of the detection stored for the first by at most
\* max_width_change_ratio times that stored width.
C2_WidthChangeBounded ==
    [][(/\ Processed
        /\ ~dt'.uniform
        /\ frame_count > 0
        /\ ~dt.uniform
        /\ temporal_state.prev_detection_count > 0) =>
          LET prev_width == width_of(last_stored(temporal_state))
              width == dt'.tc.right - dt'.tc.left + 1
          IN  10 * Abs(width - prev_width) <= config.max_width_change_x10 * prev_width
       ]_vars

\* C3: on every frame that reaches the stabilizer with a non-empty history,
\* the previous width apply_temporal_constraints compares against is the
\* width of the newest stored detection, never that of an older entry.
C3_ClampUsesNewest ==
    [][(Processed /\ ~dt'.uniform /\ temporal_state.prev_detection_count > 0) =>
          dt'.prev_width = width_of(last_stored(temporal_state))
       ]_vars

\* C5 as stated: in the uniform branch the three zone statistics are taken
\* over three equal-width column ranges that together cover columns 0..31.
C5_UniformZonesEqualWidth ==
    (frame_count > 0 /\ dt.uniform) =>
        LET z == dt.zones
            w(range) == range[2] - range[1] + 1
        IN  /\ z.left[1] = 0
            /\ z.centre[1] = z.left[2] + 1
            /\ z.right[1] = z.centre[2] + 1
            /\ z.right[2] = SENSOR_WIDTH - 1
            /\ w(z.left) = w(z.centre)
            /\ w(z.centre) = w(z.right)

\* C5 amended: in the uniform branch the three zone statistics are taken over
\* the contiguous column ranges 0..9, 10..19 and 20..31: they cover columns
\* 0..31, left and centre are 32 div 3 = 10 columns wide and the right range
\* takes the remainder (12 columns).
C5_UniformZonesCover ==
    (frame_count > 0 /\ dt.uniform) =>
        LET temps(lo, hi) == { Pixel(mlx_temps, row * SENSOR_WIDTH + col) :
                                 row \in START_ROW .. (START_ROW + MIDDLE_ROWS - 1),
                                 col \in lo .. hi }
            over(stats, lo, hi) ==
                /\ stats.min \in temps(lo, hi)
                /\ stats.max \in temps(lo, hi)
                /\ \A t \in temps(lo, hi) : stats.min <= t /\ t <= stats.max
        IN  /\ dt.zones = [left |-> <<0, 9>>, centre |-> <<10, 19>>, right |-> <<20, 31>>]
            /\ over(tyre.left, 0, 9)
            /\ over(tyre.centre, 10, 19)
            /\ over(tyre.right, 20, 31)

\* a frame that left through the uniform branch although its last column
\* differs from its first, so the right zone's statistics show its extent
C5_Witness ==
    /\ frame_count > 0
    /\ dt.uniform
    /\ tyre.detected = 0
    /\ tyre.right.min # tyre.left.min

\* C9: every processed frame runs the EMA once, in the uniform branch too:
\* the first frame's smoothed profile is the filtered profile and sets
\* has_previous; later ones blend filtered with the stored profile at
\* ema_alpha; and the stored profile afterwards is the smoothed profile.
C9_EmaOncePerFrame ==
    [][Processed =>
          /\ temporal_state'.has_previous = 1
          /\ temporal_state'.prev_profile = dt'.smoothed
          /\ temporal_state.has_previous = 0 => dt'.smoothed = dt'.filtered
          /\ temporal_state.has_previous = 1 =>
                \A i \in Cols :
                    dt'.smoothed[i] =
                        CDiv(config.ema_alpha_x10 * dt'.filtered[i]
                             + (10 - config.ema_alpha_x10) * temporal_state.prev_profile[i],
                             10)
       ]_vars

\* a second or later frame that left through the uniform branch with a
\* smoothed profile that is not the filtered one
C9_Witness ==
    /\ frame_count > 1
    /\ dt.uniform
    /\ dt.smoothed # dt.filtered
    /\ temporal_state.prev_profile = dt.smoothed

\* C13: the confidence of every detect_tyre result lies in [0, 1]; with
\* detected = 1 the lateral gradient (max - min of the smoothed profile over
\* the span) is >= 0 and the confidence is the average of the width score
\* (1.0 for min_tyre_width <= width <= max_tyre_width, else 0.5) and the
\* gradient score min(gradient / 10, 1.0); with detected = 0 it is 0.
C13_ConfidenceInRange ==
    frame_count > 0 =>
        /\ 0 <= tyre.confidence
        /\ tyre.confidence <= Scale
        /\ tyre.detected = 0 => tyre.confidence = 0
        /\ tyre.detected = 1 =>
              LET span == tyre.span_start .. tyre.span_end
                  temps == {dt.smoothed[i] : i \in span}
                  gradient == (CHOOSE hi \in temps : \A t \in temps : t <= hi)
                              - (CHOOSE lo \in temps : \A t \in temps : lo <= t)
                  width_score == IF /\ tyre.tyre_width >= config.min_tyre_width
                                    /\ tyre.tyre_width <= config.max_tyre_width
                                 THEN Scale ELSE Scale \div 2
                  gradient_score == IF gradient >= 10 * Scale THEN Scale
                                    ELSE CDiv(gradient, 10)
              IN  /\ gradient >= 0
                  /\ tyre.lateral_gradient = gradient
                  /\ tyre.confidence = CDiv(width_score + gradient_score, 2)

\* a detection narrower than min_tyre_width (width score 0.5) whose gradient
\* is below 10 degC, so the gradient score counts with less than 1.0
C13_Witness ==
    /\ frame_count > 0
    /\ tyre.detected = 1
    /\ tyre.tyre_width < config.min_tyre_width
    /\ tyre.lateral_gradient > 0
    /\ tyre.lateral_gradient < 10 * Scale
    /\ tyre.confidence > Scale \div 4
    /\ tyre.confidence < Scale

\* C27: a frame the uniformity gate rejects leaves prev_detections and
\* prev_detection_count as they were: grow_region and the three stabilizer
\* stages do not run, and of the temporal state only the EMA profile (and
\* has_previous) is written by that frame.
C27_GateLeavesHistory ==
    [][(Processed /\ dt'.uniform) =>
          /\ temporal_state'.prev_detections = temporal_state.prev_detections
          /\ temporal_state'.prev_detection_count = temporal_state.prev_detection_count
          /\ temporal_state' = [temporal_state EXCEPT !.prev_profile = dt'.smoothed,
                                                      !.has_previous = 1]
          /\ dt'.grown = NoSpan /\ dt'.geo = NoSpan /\ dt'.tc = NoSpan /\ dt'.out = NoSpan
          /\ tyre'.detected = 0
       ]_vars

\* a frame was rejected by the gate after earlier frames had left detections
\* in the history, and the EMA profile moved with it
C27_Witness ==
    /\ frame_count > 1
    /\ dt.uniform
    /\ tyre.detected = 0
    /\ temporal_state.prev_detection_count > 0
    /\ temporal_state.prev_detections[0][1] > temporal_state.prev_detections[0][0]
    /\ temporal_state.prev_profile = dt.smoothed
    /\ dt.smoothed # dt.filtered

\* ------------------------------------------- SpecStab: the stabilizer chain
\* detect_tyre seen from the uniformity gate on: a call either returns through
\* the uniform branch or hands the stabilizer the span grow_region produced.
\* grow_region starts left and right at centre_col and only moves them
\* outwards, so its spans are the (left, right) with
\* 0 <= left <= centre_col <= right <= 31; GrownLefts and GrownRights are the
\* ones the runs draw from.
MaxRuns == 3

GrownLefts == {0, 3, 8, 11, 14, 16}

GrownRights == {16, 18, 21, 25, 29, 31}

InitStab == InitDet

\* detect_tyre lines 527-543: the early return leaves the history alone
GateReturned ==
    /\ frame_count < MaxRuns
    /\ tyre' = [ZeroTyre EXCEPT !.detected = 0, !.tyre_width = 0, !.confidence = 0]
    /\ dt' = [NoLocals EXCEPT !.uniform = TRUE, !.zones = uniform_thirds]
    /\ frame_count' = frame_count + 1
    /\ UNCHANGED <<program, emitted, status, temporal_state, mlx_temps, driver_vars>>

\* detect_tyre lines 545-557: stabilizer chain, then the span fields of the
\* result as analyze_tyre writes them
StabilizerRun ==
    /\ frame_count < MaxRuns
    /\ \E left \in GrownLefts, right \in GrownRights :
        \E st \in {stabilize(temporal_state, Span(left, right))} :
            /\ temporal_state' = st.ts
            /\ tyre' = span_fields(ZeroTyre, st.out.left, st.out.right)
            /\ dt' = [NoLocals EXCEPT !.grown = Span(left, right), !.geo = st.geo,
                                      !.tc = st.tc, !.out = st.out,
                                      !.prev_width = st.prev_width,
                                      !.zones = split_thirds(st.out.left, st.out.right)]
            /\ frame_count' = frame_count + 1
    /\ UNCHANGED <<program, emitted, status, mlx_temps, driver_vars>>

NextStab == GateReturned \/ StabilizerRun

SpecStab == InitStab /\ [][NextStab]_vars

\* ------------------------------------------------ claims on the stabilizer
\* (left, right) as a row of prev_detections
row_of(span) == [j \in 0 .. 1 |-> IF j = 0 THEN span.left ELSE span.right]

\* C4: prev_detection_count stays within 0..2; a stabilizer run on a full
\* history drops slot 0, moves slot 1 into slot 0 and stores the new span in
\* slot 1; on a shorter history it appends and keeps the older entries.
C4_HistoryOldestFirst ==
    [][/\ temporal_state'.prev_detection_count \in 0 .. 2
       /\ (Processed /\ ~dt'.uniform) =>
            LET n == temporal_state.prev_detection_count
                old == temporal_state.prev_detections
                new == temporal_state'.prev_detections
            IN  IF n = 2
                THEN /\ temporal_state'.prev_detection_count = 2
                     /\ new[0] = old[1]
                     /\ new[1] = row_of(dt'.out)
                ELSE /\ temporal_state'.prev_detection_count = n + 1
                     /\ new[n] = row_of(dt'.out)
                     /\ \A i \in 0 .. (n - 1) : new[i] = old[i]
      ]_vars

\* a run that smoothed its span (so the history was full when it began) and
\* left two different entries behind, the new one in slot 1
C4_Witness ==
    /\ temporal_state.prev_detection_count = 2
    /\ ~dt.uniform
    /\ dt.out # dt.tc
    /\ temporal_state.prev_detections[1] = row_of(dt.out)
    /\ temporal_state.prev_detections[0] # temporal_state.prev_detections[1]

\* C10: every stored history span and every span reported with detected = 1
\* satisfies 0 <= left <= right <= 31, tyre_width = span_end - span_start + 1,
\* and the column ranges the zone analyzer reads lie within 0..31.
C10_SpansInBounds ==
    LET ok(l, r) == 0 <= l /\ l <= r /\ r <= SENSOR_WIDTH - 1
    IN  /\ \A i \in 0 .. (temporal_state.prev_detection_count - 1) :
              ok(temporal_state.prev_detections[i][0], temporal_state.prev_detections[i][1])
        /\ tyre.detected = 1 =>
              /\ ok(tyre.span_start, tyre.span_end)
              /\ tyre.tyre_width = tyre.span_end - tyre.span_start + 1
              /\ tyre.span_start = dt.out.left
              /\ tyre.span_end = dt.out.right
              /\ \A z \in {dt.zones.left, dt.zones.centre, dt.zones.right} : ok(z[1], z[2])

\* a detection whose span the temporal clamp pushed against column 0
C10_Witness ==
    /\ tyre.detected = 1
    /\ tyre.span_start = 0
    /\ dt.prev_width > 0
    /\ dt.tc # dt.geo
    /\ temporal_state.prev_detection_count = 2

MaxFeeds == 4

InitPersist ==
    /\ emitted = NoEmission
    /\ program = "test"
    /\ status = 0
    /\ InitDriver
    /\ temporal_state = ZeroTemporalState
    /\ tyre = ZeroTyre
    /\ frame_count = 0
    /\ mlx_temps = NoFrame
    /\ \E left \in Cols, right \in Cols :
          /\ left <= right
          /\ dt = [NoLocals EXCEPT !.tc = Span(left, right)]

FeedSame ==
    /\ frame_count < MaxFeeds
    /\ \E p \in {apply_persistence(temporal_state, dt.tc.left, dt.tc.right)} :
          /\ temporal_state' = p.ts
          /\ dt' = [dt EXCEPT !.out = Span(p.left, p.right)]
    /\ frame_count' = frame_count + 1
    /\ UNCHANGED <<program, emitted, status, tyre, mlx_temps, driver_vars>>

NextPersist == FeedSame

SpecPersist == InitPersist /\ [][NextPersist]_vars

\* C6: from an empty history, every call of apply_persistence with the same
\* span returns that span, and the history holds nothing but that span.
C6_IdenticalSpansFixed ==
    frame_count > 0 =>
        /\ dt.out = dt.tc
        /\ temporal_state.prev_detection_count = Min(frame_count, 2)
        /\ \A i \in 0 .. (temporal_state.prev_detection_count - 1) :
              temporal_state.prev_detections[i] = row_of(dt.tc)

\* persistence_frames + 1 or more calls with a span away from column 0
C6_Witness ==
    /\ frame_count >= config.persistence_frames + 1
    /\ dt.tc.left > 0
    /\ dt.tc.right > dt.tc.left
    /\ dt.out = dt.tc
    /\ temporal_state.prev_detections[0] = row_of(dt.tc)

\* --------------------------- SpecConverge: a constant span on a full history
\* apply_persistence called for ever with the same (left, right), held in
\* dt.tc, starting from a full history of spans around it; frame_count
\* counts the calls up to MaxFeeds and stays there.
HistorySpans == { Span(left, right) : left \in 9 .. 12, right \in 20 .. 23 }

ConstantSpans == { Span(10, 21), Span(11, 22) }

InitConverge ==
    /\ emitted = NoEmission
    /\ program = "test"
    /\ status = 0
    /\ InitDriver
    /\ tyre = ZeroTyre
    /\ frame_count = 0
    /\ mlx_temps = NoFrame
    /\ \E h0 \in HistorySpans, h1 \in HistorySpans :
          temporal_state =
              [ZeroTemporalState EXCEPT
                  !.prev_detections = [i \in 0 .. 1 |-> row_of(IF i = 0 THEN h0 ELSE h1)],
                  !.prev_detection_count = 2,
                  !.has_previous = 1]
    /\ \E s \in ConstantSpans : dt = [NoLocals EXCEPT !.tc = s]

FeedConstant ==
    /\ \E p \in {apply_persistence(temporal_state, dt.tc.left, dt.tc.right)} :
          /\ temporal_state' = p.ts
          /\ dt' = [dt EXCEPT !.out = Span(p.left, p.right)]
    /\ frame_count' = Min(frame_count + 1, MaxFeeds)
    /\ UNCHANGED <<program, emitted, status, tyre, mlx_temps, driver_vars>>

NextConverge == FeedConstant

\* the loop of main does not stop: the next call always comes
SpecConverge == InitConverge /\ [][NextConverge]_vars /\ WF_vars(FeedConstant)

\* C24: with a full history of any contents and the span entering
\* apply_persistence constant at S on every following frame, the span it
\* returns is eventually S and stays S from then on.
C24_ConvergesToConstant == <>[](frame_count > 0 /\ dt.out = dt.tc)

\* ------------------------------------------------ SpecMain: the driver loop
\* (uint8_t)fps as main measures it
FpsValues == {4, 7}

\* the frames CalculateTo hands the driver: a band thermal_algorithm_process
\* detects, a uniform scene, and the band with a saturated pixel
DriverFrames ==
    { Frame(20, 21, 11, 20, 27, -1, 0),
      Frame(20, 20, 0, -1, 20, -1, 0),
      Frame(20, 21, 11, 20, 27, 1, 14) }

RX(value) == [kind |-> "RX_FULL", value |-> value]
RD == [kind |-> "RD_REQ", value |-> 0]
STOP == [kind |-> "STOP_DET", value |-> 0]

\* what the bus master does: writes of one configuration register, and a
\* two-byte read of the frame number
Transactions ==
    { <<RX(REG_RAW_MODE), RX(1), STOP>>,
      <<RX(REG_RAW_MODE), RX(0), STOP>>,
      <<RX(REG_FALLBACK_MODE), RX(1), STOP>>,
      <<RX(REG_FRAME_NUMBER_L), RD, RD, STOP>> }

InitMain ==
    /\ emitted = NoEmission
    /\ program = "driver"
    /\ status = 0
    /\ InitTest
    /\ InitDriver

\* the read failure with the loop going on to count the frame
MainReadFailed_counts ==
    /\ program = "driver"
    /\ total_frames < MaxFrames
    /\ \E code \in {-1, -8} : status' = code
    /\ total_frames' = total_frames + 1
    /\ UNCHANGED <<program, emitted, test_vars, frame_counter, result, mlx_frame, register_map,
                   state, current_frame, tx, bus>>

\* main.c lines 159-168: MLX90640_GetFrameData failed: printf, sleep, continue
MainReadFailed ==
    /\ program = "driver"
    /\ \E code \in {-1, -8} : status' = code
    /\ UNCHANGED <<program, emitted, test_vars, driver_vars>>

\* main.c lines 159-222: one iteration with a frame read: CalculateTo,
\* thermal_algorithm_process or the raw-mode branch, i2c_slave_update,
\* total_frames++ (the uint32_t counters stay far below 2^32 here); limit is
\* the number of frames the run lets the loop read
MainIteration(limit) ==
    /\ program = "driver"
    /\ total_frames < limit
    /\ \E f \in DriverFrames, fps \in FpsValues :
        \E r \in { IF ~i2c_slave_get_raw_mode(register_map)
                   THEN thermal_algorithm_process(f, result, thermal_config,
                                                  frame_counter + 1)
                   ELSE [ZeroFrameData EXCEPT !.frame_number = total_frames] } :
            /\ status' = 0
            /\ mlx_frame' = f
            /\ frame_counter' = IF ~i2c_slave_get_raw_mode(register_map)
                                THEN frame_counter + 1
                                ELSE frame_counter
            /\ result' = r
            /\ \E regs \in {i2c_slave_update(register_map, r, fps, f)} :
                  register_map' = regs
            /\ current_frame' = TRUE
            /\ total_frames' = total_frames + 1
    /\ UNCHANGED <<program, emitted, test_vars, state, tx, bus>>

MainFrame == MainIteration(MaxFrames)

\* the master begins a transaction
MasterStart ==
    /\ program = "driver"
    /\ bus = <<>>
    /\ bus' \in Transactions
    /\ UNCHANGED <<program, emitted, status, test_vars, frame_counter, total_frames, result,
                   mlx_frame, register_map, state, current_frame, tx>>

\* I2C1_IRQ: i2c_slave_handler runs for the next bus event, or for a last
\* byte and the STOP after it raised together
I2CInterrupt ==
    /\ program = "driver"
    /\ bus # <<>>
    /\ \E n \in {1, 2} :
        /\ n <= Len(bus)
        /\ n = 2 => (bus[1].kind = "RX_FULL" /\ bus[2].kind = "STOP_DET")
        /\ \E h \in { i2c_slave_handler(state, register_map, tx,
                                        IF current_frame THEN mlx_frame ELSE NoFrame,
                                        {bus[i].kind : i \in 1 .. n}, bus[1].value) } :
              /\ state' = h.state
              /\ register_map' = h.regs
              /\ tx' = h.tx
        /\ bus' = SubSeq(bus, n + 1, Len(bus))
    /\ UNCHANGED <<program, emitted, status, test_vars, frame_counter, total_frames, result,
                   mlx_frame, current_frame>>

NextMain == MainReadFailed \/ MainFrame \/ MasterStart \/ I2CInterrupt

SpecMain == InitMain /\ [][NextMain]_vars

\* C7: when the driver has been in raw mode and is switched back, the next
\* processed frame yields the result and leaves the state that the very
\* first frame ever processed would: frame_counter counts it as frame 1 and
\* the result is that of a first call of thermal_algorithm_process.
C7_FreshAfterRawMode ==
    [][(/\ total_frames' = total_frames + 1
        /\ total_frames > 0
        /\ result = [ZeroFrameData EXCEPT !.frame_number = total_frames - 1]
        /\ ~i2c_slave_get_raw_mode(register_map)) =>
          /\ frame_counter' = 1
          /\ result' = thermal_algorithm_process(mlx_frame', ZeroFrameData,
                                                 thermal_config, 1)
       ]_vars

\* the 16-bit value in registers r (low byte) and r + 1 (high byte)
word_at(regs, r) == regs[r] + 256 * regs[r + 1]

\* C17: when an iteration publishes a result with detected = false through
\* i2c_slave_update: with REG_FALLBACK_MODE = 1 the left and right median and
\* average registers equal the centre ones and the lateral gradient
\* registers are 0; with REG_FALLBACK_MODE = 0 the left and right median and
\* average registers are 0.
C17_FallbackPublishes ==
    [][(total_frames' = total_frames + 1 /\ ~result'.detection.detected) =>
          /\ register_map'[REG_DETECTED] = 0
          /\ register_map[REG_FALLBACK_MODE] = 1 =>
                /\ word_at(register_map', REG_LEFT_MEDIAN_L)
                      = word_at(register_map', REG_CENTRE_MEDIAN_L)
                /\ word_at(register_map', REG_RIGHT_MEDIAN_L)
                      = word_at(register_map', REG_CENTRE_MEDIAN_L)
                /\ word_at(register_map', REG_LEFT_AVG_L)
                      = word_at(register_map', REG_CENTRE_AVG_L)
                /\ word_at(register_map', REG_RIGHT_AVG_L)
                      = word_at(register_map', REG_CENTRE_AVG_L)
                /\ word_at(register_map', REG_LATERAL_GRADIENT_L) = 0
          /\ register_map[REG_FALLBACK_MODE] = 0 =>
                /\ word_at(register_map', REG_LEFT_MEDIAN_L) = 0
                /\ word_at(register_map', REG_RIGHT_MEDIAN_L) = 0
                /\ word_at(register_map', REG_LEFT_AVG_L) = 0
                /\ word_at(register_map', REG_RIGHT_AVG_L) = 0
       ]_vars

\* a frame without a detection was published in fallback mode: the left and
\* right registers carry the centre temperature, which is not 0
C17_Witness ==
    /\ total_frames > 0
    /\ ~result.detection.detected
    /\ register_map[REG_FALLBACK_MODE] = 1
    /\ register_map[REG_DETECTED] = 0
    /\ word_at(register_map, REG_CENTRE_MEDIAN_L) > 0
    /\ word_at(register_map, REG_LEFT_MEDIAN_L) = word_at(register_map, REG_CENTRE_MEDIAN_L)
    /\ word_at(register_map, REG_RIGHT_AVG_L) = word_at(register_map, REG_CENTRE_AVG_L)

\* C26: from one iteration with a frame read to the next, the frame number
\* handed to i2c_slave_update and the serial record, and with it the number
\* in REG_FRAME_NUMBER_L/H, strictly increases, whatever the master wrote
\* to REG_RAW_MODE in between.
C26_FrameNumberIncreases ==
    [][(total_frames' = total_frames + 1 /\ total_frames > 0) =>
          /\ result'.frame_number > result.frame_number
          /\ word_at(register_map', REG_FRAME_NUMBER_L)
                > word_at(register_map, REG_FRAME_NUMBER_L)
       ]_vars

\* ------------------------------ SpecProcess: thermal_algorithm_process alone
\* thermal_algorithm_process called as main.c calls it in algorithm mode, on
\* frames with a 27 degC band of any extent lo..hi on a 20 / 21 degC
\* background, a uniform frame, and bands with a saturated pixel.
AlgoFrames ==
    { Frame(20, 21, lo, hi, 27, -1, 0) : lo \in {0, 3, 9, 13, 15, 20}, hi \in {2, 14, 16, 19, 25, 31} }
    \cup { Frame(20, 21, 11, 20, 27, 1, sc) : sc \in {5, 14, 16} }
    \cup { Frame(20, 20, 0, -1, 20, -1, 0) }

AlgorithmCall ==
    /\ program = "driver"
    /\ frame_counter < MaxFrames
    /\ \E f \in AlgoFrames :
        \E r \in {thermal_algorithm_process(f, result, thermal_config, frame_counter + 1)} :
            /\ mlx_frame' = f
            /\ result' = r
            /\ frame_counter' = frame_counter + 1
    /\ UNCHANGED <<program, emitted, status, test_vars, total_frames, register_map,
                   state, current_frame, tx, bus>>

NextProcess == AlgorithmCall

SpecProcess == InitMain /\ [][NextProcess]_vars

\* C29: every result of thermal_algorithm_process with detected = false has
\* span_start = 0, span_end = 31, tyre_width = 32, confidence = 0,
\* lateral_gradient = 0, warnings = 0 and all-zero left and right zone
\* statistics; and detected = true only with
\* min_tyre_width <= tyre_width <= max_tyre_width.
C29_NeutralWhenNotDetected ==
    frame_counter > 0 =>
        /\ ~result.detection.detected =>
              /\ result.detection.span_start = 0
              /\ result.detection.span_end = SENSOR_WIDTH - 1
              /\ result.detection.tyre_width = SENSOR_WIDTH
              /\ result.detection.confidence = 0
              /\ result.lateral_gradient = 0
              /\ result.warnings = 0
              /\ result.left = ZeroZone
              /\ result.right = ZeroZone
        /\ result.detection.detected =>
              /\ result.detection.tyre_width >= thermal_config.min_tyre_width
              /\ result.detection.tyre_width <= thermal_config.max_tyre_width

\* a frame with a hot band only two columns wide was processed as a later
\* frame: not detected, neutral span, and the centre zone (the whole
\* profile) shows the band
C29_Witness ==
    /\ frame_counter > 1
    /\ mlx_frame = Frame(20, 21, 13, 14, 27, -1, 0)
    /\ ~result.detection.detected
    /\ result.detection.tyre_width = SENSOR_WIDTH
    /\ result.centre.count = SENSOR_WIDTH
    /\ result.centre.max = 27 * Scale
    /\ result.left = ZeroZone

\* ------------------------------------- SpecLoops: either program's loop
InitLoops == InitDet \/ InitMain

NextLoops == NextDet \/ NextMain

SpecLoops == InitLoops /\ [][NextLoops]_vars

\* C8: a loop iteration whose frame read failed (status negative, no bus
\* event taken) calls neither pipeline and leaves the EMA profile, the
\* detection history, the frame counters, the results and the register map
\* as they were.
C8_FailedReadAdvancesNothing ==
    [][(status' < 0 /\ bus' = bus) =>
          /\ UNCHANGED <<temporal_state, frame_count, tyre, dt, mlx_temps>>
          /\ UNCHANGED <<frame_counter, total_frames, result, register_map,
                         current_frame, mlx_frame>>
       ]_vars

\* a failed read in the driver after frames were processed and published
C8_Witness ==
    /\ program = "driver"
    /\ status < 0
    /\ total_frames > 1
    /\ frame_counter > 0
    /\ register_map[REG_FRAME_NUMBER_L] = frame_counter

\* ------------------------------------------ SpecGeo: the geometry clamp alone
\* apply_geometry_constraints called on a span and then again on what it
\* returned; dt.grown holds the span (any 0 <= left <= right <= 31), dt.geo
\* what the last call returned.
MaxClamps == 2

InitGeo ==
    /\ emitted = NoEmission
    /\ program = "test"
    /\ status = 0
    /\ InitDriver
    /\ temporal_state = ZeroTemporalState
    /\ tyre = ZeroTyre
    /\ frame_count = 0
    /\ mlx_temps = NoFrame
    /\ \E left \in Cols, right \in Cols :
          /\ left <= right
          /\ dt = [NoLocals EXCEPT !.grown = Span(left, right)]

\* (left, right) as the next call of the clamp finds them
clamp_input == IF frame_count = 0 THEN dt.grown ELSE dt.geo

GeometryClamp ==
    /\ frame_count < MaxClamps
    /\ \E g \in {apply_geometry_constraints(clamp_input.left, clamp_input.right)} :
          dt' = [dt EXCEPT !.geo = g]
    /\ frame_count' = frame_count + 1
    /\ UNCHANGED <<program, emitted, status, temporal_state, tyre, mlx_temps, driver_vars>>

NextGeo == GeometryClamp

SpecGeo == InitGeo /\ [][NextGeo]_vars

\* C11: a call of apply_geometry_constraints on a span 0 <= left <= right <= 31
\* whose width lies in [min_tyre_width, max_tyre_width] returns the span
\* unchanged.
C11_GeometryIdempotent ==
    [][(/\ frame_count' = frame_count + 1
        /\ 0 <= clamp_input.left
        /\ clamp_input.left <= clamp_input.right
        /\ clamp_input.right <= SENSOR_WIDTH - 1
        /\ clamp_input.right - clamp_input.left + 1 >= config.min_tyre_width
        /\ clamp_input.right - clamp_input.left + 1 <= config.max_tyre_width) =>
          dt'.geo = clamp_input
       ]_vars

\* the clamp has returned a span of admissible width that lies off centre and
\* touches the last column, as it was handed in
C11_Witness ==
    /\ frame_count = 1
    /\ dt.grown = Span(20, SENSOR_WIDTH - 1)
    /\ dt.geo = dt.grown

\* C21: for every span 0 <= left <= right <= 31 handed to
\* apply_geometry_constraints, the span it returns has a width of at least
\* min_tyre_width and at most max_tyre_width.
C21_ClampedWidthInRange ==
    frame_count > 0 =>
        /\ dt.geo.right - dt.geo.left + 1 >= config.min_tyre_width
        /\ dt.geo.right - dt.geo.left + 1 <= config.max_tyre_width

\* --------------------------------------- SpecHot: the hot pixel pass alone
\* detect_tyre lines 494-502 on one frame: the four middle rows are copied
\* out of the frame and remove_hot_pixels runs on each.  The frames have a
\* band that is warm, or one column wide and above brake_temp_threshold (at
\* column 0, inside, or at column 31), and at most one saturated pixel.
HotBands == {<<11, 20, 27>>, <<0, 0, 200>>, <<5, 5, 200>>, <<31, 31, 200>>}

HotFrames ==
    { Frame(20, 24, b[1], b[2], b[3], sr, sc) :
        b \in HotBands, sr \in 0 .. (MIDDLE_ROWS - 1), sc \in Cols }
    \cup { Frame(20, 24, b[1], b[2], b[3], -1, 0) : b \in HotBands }

InitHot ==
    /\ emitted = NoEmission
    /\ program = "test"
    /\ status = 0
    /\ InitDriver
    /\ temporal_state = ZeroTemporalState
    /\ tyre = ZeroTyre
    /\ frame_count = 0
    /\ mlx_temps \in HotFrames
    /\ dt = NoLocals

HotPixelPass ==
    /\ frame_count = 0
    /\ \E rows \in {middle_rows(mlx_temps)} : dt' = [dt EXCEPT !.rows = rows]
    /\ frame_count' = frame_count + 1
    /\ UNCHANGED <<program, emitted, status, temporal_state, tyre, mlx_temps, driver_vars>>

NextHot == HotPixelPass

SpecHot == InitHot /\ [][NextHot]_vars

\* row START_ROW + row of the frame as it is copied into middle_rows
frame_row(frame, row) ==
    [col \in Cols |-> Pixel(frame, (START_ROW + row) * SENSOR_WIDTH + col)]

\* C12: after the pass, in every row where exactly one pixel was above
\* brake_temp_threshold, that pixel holds the mean of its left and right
\* neighbours if it is interior and its single neighbour if it is at column
\* 0 or column 31, and every other pixel of the row is as it was.
C12_SingleHotPixelReplaced ==
    frame_count > 0 =>
        \A row \in 0 .. (MIDDLE_ROWS - 1) :
            LET before == frame_row(mlx_temps, row)
                after == dt.rows[row]
                hot == {col \in Cols : before[col] > config.brake_temp_threshold}
            IN  Cardinality(hot) = 1 =>
                    \A col \in Cols :
                        after[col] =
                            IF col \notin hot THEN before[col]
                            ELSE IF col = 0 THEN before[1]
                            ELSE IF col = SENSOR_WIDTH - 1 THEN before[SENSOR_WIDTH - 2]
                            ELSE CDiv(before[col - 1] + before[col + 1], 2)

\* the pass has run on a frame whose one saturated pixel sits on the band
\* edge, between a 20 degC and a 27 degC neighbour, and left 23.5 degC there
C12_Witness ==
    /\ frame_count > 0
    /\ mlx_temps = Frame(20, 24, 11, 20, 27, 1, 11)
    /\ dt.rows[1][11] = 23500
    /\ dt.rows[1][10] = 20 * Scale
    /\ dt.rows[1][12] = 27 * Scale

\* ------------------------------------- SpecStream: the frame read over I2C
\* The driver loop with a master that selects REG_FRAME_DATA_START and, after
\* a repeated start, reads the frame bytes and two more in one transaction.
MaxBusFrames == 1

FrameBytes == SENSOR_WIDTH * SENSOR_HEIGHT * 2

StreamReads == FrameBytes + 2

StreamTransaction ==
    <<RX(REG_FRAME_DATA_START)>> \o [i \in 1 .. StreamReads |-> RD] \o <<STOP>>

MasterStream ==
    /\ program = "driver"
    /\ bus = <<>>
    /\ current_frame
    /\ bus' = StreamTransaction
    /\ UNCHANGED <<program, emitted, status, test_vars, frame_counter, total_frames, result,
                   mlx_frame, register_map, state, current_frame, tx>>

MainFrameBus == MainIteration(MaxBusFrames)

NextStream == MainReadFailed \/ MainFrameBus \/ MasterStream \/ I2CInterrupt

SpecStream == InitMain /\ [][NextStream]_vars

\* byte k of the frame as 768 int16 tenths, row-major, low byte first
frame_byte(frame, k) ==
    LET temp == temp_to_int16_tenths(Pixel(frame, k \div 2))
    IN  IF k % 2 = 0 THEN LowByte(temp) ELSE HighByte(temp)

\* the byte reads the master has been served in the transaction under way
reads_served == StreamReads - (Len(bus) - 1)

\* C14: after the master has selected REG_FRAME_DATA_START, read number k
\* (k = 0 .. 1535) of the transaction is answered with byte k of the current
\* frame: pixel k div 2 in row-major order as int16 tenths of a degree, low
\* byte for even k and high byte for odd k.
C14_StreamsFullFrame ==
    [][(/\ bus # <<>>
        /\ bus[1].kind = "RD_REQ"
        /\ bus' = Tail(bus)
        /\ state.current_register = REG_FRAME_DATA_START
        /\ reads_served < FrameBytes) =>
          tx' = frame_byte(mlx_frame, reads_served)
       ]_vars

\* ------------------------------------ SpecRaw: the raw channel read over I2C
\* The driver loop with a master that selects register 0x30 and, after a
\* repeated start, reads 32 bytes in one transaction.
RawChannels == 16

RawReads == 2 * RawChannels

RawTransaction ==
    <<RX(REG_RAW_CH0_L)>> \o [i \in 1 .. RawReads |-> RD] \o <<STOP>>

MasterReadsRaw ==
    /\ program = "driver"
    /\ bus = <<>>
    /\ bus' = RawTransaction
    /\ UNCHANGED <<program, emitted, status, test_vars, frame_counter, total_frames, result,
                   mlx_frame, register_map, state, current_frame, tx>>

NextRaw == MainReadFailed \/ MainFrameBus \/ MasterReadsRaw \/ I2CInterrupt

SpecRaw == InitMain /\ [][NextRaw]_vars

\* the byte reads the master has been served in the raw channel transaction
raw_reads_served == RawReads - (Len(bus) - 1)

\* C15: once a frame is published, read number k (k = 0 .. 31) of a
\* transaction that selected register 0x30 is answered with the low byte
\* (k even) or the high byte (k odd) of raw channel k div 2 of that frame,
\* which is the content of register 0x30 + k.
C15_RawChannelsInOrder ==
    [][(/\ bus # <<>>
        /\ bus[1].kind = "RD_REQ"
        /\ bus' = Tail(bus)
        /\ current_frame) =>
          LET k == raw_reads_served
              temp == temp_to_int16_tenths(raw_channel(mlx_frame, k \div 2))
          IN  /\ register_map[REG_RAW_CH0_L + k]
                    = (IF k % 2 = 0 THEN LowByte(temp) ELSE HighByte(temp))
              /\ tx' = register_map[REG_RAW_CH0_L + k]
       ]_vars

\* --------------------------------------------- SpecBus: master writes
\* The driver loop with a master that writes: a command, data aimed at a
\* status, a temperature and a raw channel register, three bytes from
\* register 0x0E on (across the end of the configuration block), a byte at
\* 0xFE followed by a command byte, and the fallback switch.
WriteTransactions ==
    { <<RX(REG_CMD), RX(CMD_CLEAR_WARNINGS), STOP>>,
      <<RX(REG_CMD - 1), RX(7), RX(CMD_CLEAR_WARNINGS), STOP>>,
      <<RX(REG_WARNINGS), RX(7), STOP>>,
      <<RX(REG_CENTRE_MEDIAN_L), RX(7), RX(7), STOP>>,
      <<RX(REG_RAW_CH0_L), RX(7), STOP>>,
      <<RX(REG_RESERVED_0F - 1), RX(9), RX(9), RX(9), STOP>>,
      <<RX(REG_FALLBACK_MODE), RX(1), STOP>> }

MasterWrites ==
    /\ program = "driver"
    /\ bus = <<>>
    /\ bus' \in WriteTransactions
    /\ UNCHANGED <<program, emitted, status, test_vars, frame_counter, total_frames, result,
                   mlx_frame, register_map, state, current_frame, tx>>

NextBus == MainReadFailed \/ MainFrameBus \/ MasterWrites \/ I2CInterrupt

SpecBus == InitMain /\ [][NextBus]_vars

\* C16: when the handler has taken the data byte CMD_CLEAR_WARNINGS of a
\* write the master addressed to REG_CMD, REG_WARNINGS is 0.
C16_ClearWarningsCommand ==
    [][(bus = <<RX(CMD_CLEAR_WARNINGS), STOP>> /\ bus' # bus) =>
          register_map'[REG_WARNINGS] = 0
       ]_vars

ProtocolTransactions ==
    WriteTransactions \cup { <<RX(REG_FRAME_NUMBER_L), RD, RD, STOP>> }

MasterTransacts ==
    /\ program = "driver"
    /\ bus = <<>>
    /\ bus' \in ProtocolTransactions
    /\ UNCHANGED <<program, emitted, status, test_vars, frame_counter, total_frames, result,
                   mlx_frame, register_map, state, current_frame, tx>>

NextProto == MainReadFailed \/ MainFrameBus \/ MasterTransacts \/ I2CInterrupt

SpecProto == InitMain /\ [][NextProto]_vars

\* C28: in every handler run, the first byte of a write transaction becomes
\* the register pointer; every further byte is data for the register the
\* pointer is on (stored if that register is writable) and moves the
\* pointer on by one; a read is answered with the register at the pointer
\* and moves the pointer on by one; a STOP resets the pointer.
C28_PointerProtocol ==
    [][(bus # <<>> /\ bus' # bus) =>
          LET pointer == state.current_register
              with_stop == Len(bus') = Len(bus) - 2
              first == bus \in ProtocolTransactions
          IN  /\ (bus[1].kind = "RX_FULL" /\ first) =>
                    state'.current_register = bus[1].value
              /\ (bus[1].kind = "RX_FULL" /\ ~first) =>
                    /\ state'.current_register =
                          IF with_stop THEN 255 ELSE U8(pointer + 1)
                    /\ (pointer >= REG_CONFIG_START /\ pointer <= REG_RESERVED_0F) =>
                          register_map'[pointer] = bus[1].value
              /\ bus[1].kind = "RD_REQ" =>
                    /\ tx' = register_map[pointer]
                    /\ state'.current_register = U8(pointer + 1)
              /\ bus[1].kind = "STOP_DET" => state'.current_register = 255
       ]_vars

\* ------------------------------- SpecEmit: a temperature on its way out
\* One temperature, finite or not, converted at each place that prepares
\* values for a consumer: temp_to_int16_tenths (I2C temperature and raw
\* channel registers, frame stream), sanitize_float and "%.1f" (compact and
\* JSON serial records), and the casts of update_i2c_registers.
MaxEmitSteps == 40

EmitInputs ==
    { Float(-40 * Scale + 1720 * k) : k \in 0 .. MaxEmitSteps } \cup {NaN, PosInf, NegInf}

InitEmit ==
    /\ program = "driver"
    /\ status = 0
    /\ InitTest
    /\ InitDriver
    /\ \E val \in EmitInputs : emitted = [NoEmission EXCEPT !.input = val]

EmitSlaveRegister ==
    /\ \E t \in {temp_to_int16_tenths_checked(emitted.input)} :
          emitted' = [emitted EXCEPT !.path = "i2c_slave", !.tenths = t,
                                     !.bytes = little_endian(t)]
    /\ UNCHANGED <<program, status, test_vars, driver_vars>>

EmitSerial ==
    /\ \E t \in {format_tenths(sanitize_float(emitted.input))} :
          emitted' = [emitted EXCEPT !.path = "serial", !.tenths = t, !.bytes = <<>>]
    /\ UNCHANGED <<program, status, test_vars, driver_vars>>

EmitRegisterBlock ==
    /\ \E t \in cast_int16_tenths(emitted.input) :
          emitted' = [emitted EXCEPT !.path = "i2c_registers", !.tenths = t,
                                     !.bytes = big_endian(t)]
    /\ UNCHANGED <<program, status, test_vars, driver_vars>>

NextEmit == EmitSlaveRegister \/ EmitSerial \/ EmitRegisterBlock

SpecEmit == InitEmit /\ [][NextEmit]_vars

\* C19: whatever path a temperature takes to a consumer (I2C slave
\* registers and frame stream, serial records, the register block of
\* update_i2c_registers), a non-finite input comes out as zero.
C19_NonFiniteEmittedAsZero ==
    (emitted.path # "none" /\ ~isfinite(emitted.input)) =>
        /\ emitted.tenths = 0
        /\ \A i \in 1 .. Len(emitted.bytes) : emitted.bytes[i] = 0

\* ------------------------------------------ SpecGrow: the region grower alone
\* grow_region called as detect_tyre calls it, on a smoothed profile that
\* alternates between 30 degC (even columns, the centre among them) and
\* 33 degC with a run of 10 degC columns on either side: ll columns from ls
\* leftwards, rl columns from rs rightwards (runs may touch column 0 or 31);
\* with far set, the columns right of the right run are at 60 degC.
GapLengths == 0 .. 4

GrowProfile(ls, ll, rs, rl, far) ==
    [i \in Cols |->
        IF i <= ls /\ i > ls - ll THEN 10 * Scale
        ELSE IF i >= rs /\ i < rs + rl THEN 10 * Scale
        ELSE IF far /\ i >= rs + rl THEN 60 * Scale
        ELSE IF i % 2 = 0 THEN 30 * Scale
        ELSE 33 * Scale]

GrowProfiles ==
    { GrowProfile(ls, ll, rs, rl, far) :
        ls \in {15, 12, 3, 1}, ll \in GapLengths,
        rs \in {17, 20, 28, 30}, rl \in GapLengths, far \in BOOLEAN }

InitGrow ==
    /\ emitted = NoEmission
    /\ program = "test"
    /\ status = 0
    /\ InitDriver
    /\ temporal_state = ZeroTemporalState
    /\ tyre = ZeroTyre
    /\ frame_count = 0
    /\ mlx_temps = NoFrame
    /\ \E profile \in GrowProfiles : dt = [NoLocals EXCEPT !.smoothed = profile]

\* detect_tyre lines 523-547: global statistics of the smoothed profile, the
\* uniformity gate, then grow_region
GrowRegion ==
    /\ frame_count = 0
    /\ \E median_temp \in {calculate_median(dt.smoothed, Cols)},
          mad_global \in {calculate_mad(dt.smoothed, Cols)} :
          IF mad_global < config.mad_uniform_threshold
          THEN dt' = [dt EXCEPT !.median_temp = median_temp,
                                !.mad_global = mad_global,
                                !.uniform = TRUE]
          ELSE \E grown \in {grow_region(dt.smoothed, median_temp, mad_global)} :
                  dt' = [dt EXCEPT !.median_temp = median_temp,
                                   !.mad_global = mad_global,
                                   !.grown = Span(grown.left, grown.right)]
    /\ frame_count' = frame_count + 1
    /\ UNCHANGED <<program, emitted, status, temporal_state, tyre, mlx_temps, driver_vars>>

NextGrow == GrowRegion

SpecGrow == InitGrow /\ [][NextGrow]_vars

\* the columns of dt.smoothed that satisfy either criterion
passing == grow_criteria(dt.smoothed, dt.median_temp, dt.mad_global)

\* column i lies in direction step from the seed, passes, and no run of
\* max_fail_count + 1 failing columns lies between the seed and i
bridged(i, step) ==
    /\ (i - config.centre_col) * step > 0
    /\ passing[i]
    /\ \A j \in Cols :
          (/\ (j - config.centre_col) * step > 0
           /\ (i - (j + step * config.max_fail_count)) * step > 0) =>
              \E n \in 0 .. config.max_fail_count : passing[j + step * n]

\* C22: the span grow_region returns contains the seed column; each boundary
\* is the seed or a column that satisfied a criterion; a passing column
\* behind runs of at most max_fail_count failing columns is taken in, and
\* nothing behind a run of max_fail_count + 1 failing columns is: each
\* boundary is the farthest column reached this way.
C22_GrowthBridgesGaps ==
    (frame_count > 0 /\ ~dt.uniform) =>
        LET centre == config.centre_col
            reach(step) == {centre} \cup {i \in Cols : bridged(i, step)}
        IN  /\ dt.grown.left <= centre
            /\ centre <= dt.grown.right
            /\ dt.grown.left = centre \/ passing[dt.grown.left]
            /\ dt.grown.right = centre \/ passing[dt.grown.right]
            /\ dt.grown.left \in reach(-1)
            /\ \A i \in reach(-1) : dt.grown.left <= i
            /\ dt.grown.right \in reach(1)
            /\ \A i \in reach(1) : i <= dt.grown.right

\* a run of max_fail_count failing columns on the right was bridged by a
\* column that passes on the global criterion alone, and a run of
\* max_fail_count + 1 on the left ended growth in front of it
C22_Witness ==
    /\ frame_count > 0
    /\ ~dt.uniform
    /\ dt.smoothed = GrowProfile(12, 3, 20, 2, TRUE)
    /\ dt.grown = Span(13, SENSOR_WIDTH - 1)
    /\ ~passing[20] /\ ~passing[21] /\ passing[22]
    /\ ~passing[12] /\ passing[9]

\* ------------------------------- SpecZones: spans reaching a zone analyzer
\* Either program: the stabilizer chain of detect_tyre handing its span to
\* analyze_tyre, or the driver loop with thermal_algorithm_process splitting
\* the span of detect_tyre_span.
InitZones == InitStab \/ InitMain

NextZones == (program = "test" /\ NextStab) \/ NextMain

SpecZones == InitZones /\ [][NextZones]_vars

\* C23: whenever a span has reached a zone analyzer, the inner, centre and
\* outer zones are contiguous, pairwise disjoint and cover exactly
\* [left, right]: inner and outer are third = width / 3 columns wide, the
\* centre has the remaining width - 2 * third, and no zone ends before it
\* starts.
C23_ZonesPartitionSpan ==
    /\ (program = "test" /\ tyre.detected = 1) =>
          LET z == dt.zones
              width == tyre.span_end - tyre.span_start + 1
              third == width \div 3
              w(range) == range[2] - range[1] + 1
          IN  /\ z.left[1] = tyre.span_start
              /\ z.centre[1] = z.left[2] + 1
              /\ z.right[1] = z.centre[2] + 1
              /\ z.right[2] = tyre.span_end
              /\ w(z.left) = third
              /\ w(z.right) = third
              /\ w(z.centre) = width - 2 * third
              /\ \A range \in {z.left, z.centre, z.right} : range[1] <= range[2]
    /\ (program = "driver" /\ result.detection.detected) =>
          LET width == result.detection.span_end - result.detection.span_start + 1
              third == width \div 3
          IN  /\ result.detection.tyre_width = width
              /\ result.left.count = third
              /\ result.right.count = third
              /\ result.centre.count = width - 2 * third
              /\ third >= 1

\* the narrowest span the stabilizer lets through, five columns off centre:
\* one column each for the inner and the outer zone, three for the centre
C23_Witness ==
    /\ program = "test"
    /\ tyre.detected = 1
    /\ tyre.tyre_width = 5
    /\ temporal_state.prev_detection_count = 2
    /\ dt.zones.left = <<tyre.span_start, tyre.span_start>>
    /\ dt.zones.centre = <<tyre.span_start + 1, tyre.span_end - 1>>
    /\ dt.zones.right = <<tyre.span_end, tyre.span_end>>

\* ------------------------------ SpecPair: a 16-bit register pair read over I2C
\* The driver loop with a master that selects REG_CENTRE_MEDIAN_L and, after
\* a repeated start, reads the low and the high byte.  The interrupt handler
\* runs between any two iterations of the loop, and an iteration between any
\* two bytes of the transaction: neither side masks or waits for the other.
PairTransaction == <<RX(REG_CENTRE_MEDIAN_L), RD, RD, STOP>>

MasterReadsPair ==
    /\ program = "driver"
    /\ bus = <<>>
    /\ bus' = PairTransaction
    /\ UNCHANGED <<program, emitted, status, test_vars, frame_counter, total_frames, result,
                   mlx_frame, register_map, state, current_frame, tx>>

NextPair == MainReadFailed \/ MainFrame \/ MasterReadsPair \/ I2CInterrupt

SpecPair == InitMain /\ [][NextPair]_vars

\* the values the centre median pair can hold: 0 from i2c_slave_init and in
\* raw mode, else what i2c_slave_update stores for a frame
published_centre_medians ==
    {0} \cup
    { temp_to_int16_tenths(
          thermal_algorithm_process(f, ZeroFrameData, thermal_config, 1).centre.median) :
        f \in DriverFrames }

\* C25: when the master has read the low and then the high byte of the
\* centre median pair in one transaction, the two bytes are the low and the
\* high byte of one published value, whatever the loop did in between.
C25_PairFromOneFrame ==
    [][(/\ bus = <<RD, STOP>>
        /\ bus' = <<STOP>>
        /\ state.current_register = REG_CENTRE_MEDIAN_L + 1) =>
          \E v \in published_centre_medians :
              tx = LowByte(v) /\ tx' = HighByte(v)
       ]_vars


\* ------------------------------------- SpecRead: one call of MLX90640_I2CRead
\* MLX90640_I2C_Driver.c. One call of MLX90640_I2CRead(slaveAddr,
\* startAddress, nWordsRead, data), one step per bus transaction; each
\* i2c_write_blocking / i2c_read_blocking either transfers all its bytes or
\* returns an error (< 0). dt holds the locals of the call, the caller's
\* array followed by the CHUNK_SIZE words of memory behind it (-1: never
\* stored to), and the transactions issued so far; status the value returned.
CHUNK_SIZE == 32

TwoTo16 == 65536

StartAddresses == {1024, 9216, 32768, 65520}

WordCounts == {0, 1, 31, 32, 33, 64, 65, 832}

\* the word the sensor holds at an address
sensor_word(address) == (address * 259 + 4660) % TwoTo16

\* byte k of what the sensor sends after the address was written: big-endian
byte_buf(address, k) ==
    IF k % 2 = 0 THEN HighByte(sensor_word((address + k \div 2) % TwoTo16))
    ELSE LowByte(sensor_word((address + k \div 2) % TwoTo16))

\* (words_remaining > CHUNK_SIZE) ? CHUNK_SIZE : words_remaining
words_this_chunk_whole(words_remaining) == words_remaining

words_this_chunk(words_remaining) ==
    IF words_remaining > CHUNK_SIZE THEN CHUNK_SIZE ELSE words_remaining

\* (byte_buf[i*2] << 8) | byte_buf[i*2 + 1], stored in a uint16_t
chunk_word(address, i) ==
    (byte_buf(address, i * 2) * 256 + byte_buf(address, i * 2 + 1)) % TwoTo16

InitRead ==
    /\ emitted = NoEmission
    /\ program = "read"
    /\ status = 0
    /\ InitDriver
    /\ temporal_state = ZeroTemporalState
    /\ tyre = ZeroTyre
    /\ frame_count = 0
    /\ mlx_temps = NoFrame
    /\ \E startAddress \in StartAddresses, nWordsRead \in WordCounts :
          dt = [pc |-> "loop",
                startAddress |-> startAddress,
                nWordsRead |-> nWordsRead,
                words_remaining |-> nWordsRead,
                current_address |-> startAddress,
                current_data |-> 0,
                data |-> [i \in 0 .. nWordsRead + CHUNK_SIZE - 1 |-> -1],
                log |-> << >>]

\* while (words_remaining > 0): i2c_write_blocking of the two address bytes
I2CWriteAddress ==
    /\ program = "read"
    /\ dt.pc = "loop"
    /\ dt.words_remaining > 0
    /\ \E bus_result \in {2, -1} :
          LET entry == [op |-> "write", address |-> dt.current_address,
                        words |-> 0, result |-> bus_result]
          IN  IF bus_result < 0
              THEN /\ dt' = [dt EXCEPT !.pc = "done", !.log = Append(@, entry)]
                   /\ status' = -1
              ELSE /\ dt' = [dt EXCEPT !.pc = "read", !.log = Append(@, entry)]
                   /\ status' = status
    /\ UNCHANGED <<program, emitted, temporal_state, tyre, frame_count, mlx_temps,
                   driver_vars>>

\* i2c_read_blocking of the chunk, conversion into current_data[], advance
I2CReadChunk ==
    /\ program = "read"
    /\ dt.pc = "read"
    /\ \E w \in {words_this_chunk(dt.words_remaining)} :
       \E bus_result \in {w * 2, -1} :
          LET entry == [op |-> "read", address |-> dt.current_address,
                        words |-> w, result |-> bus_result]
          IN  IF bus_result < 0
              THEN /\ dt' = [dt EXCEPT !.pc = "done", !.log = Append(@, entry)]
                   /\ status' = -1
              ELSE /\ dt' = [dt EXCEPT
                              !.pc = "loop",
                              !.log = Append(@, entry),
                              !.data = [i \in DOMAIN @ |->
                                  IF i >= dt.current_data /\ i < dt.current_data + w
                                  THEN chunk_word(dt.current_address, i - dt.current_data)
                                  ELSE @[i]],
                              !.words_remaining = (@ - w) % TwoTo16,
                              !.current_address = (@ + w) % TwoTo16,
                              !.current_data = @ + w]
                   /\ status' = status
    /\ UNCHANGED <<program, emitted, temporal_state, tyre, frame_count, mlx_temps,
                   driver_vars>>

\* words_remaining == 0: return 0
I2CReadReturn ==
    /\ program = "read"
    /\ dt.pc = "loop"
    /\ dt.words_remaining = 0
    /\ dt' = [dt EXCEPT !.pc = "done"]
    /\ status' = 0
    /\ UNCHANGED <<program, emitted, temporal_state, tyre, frame_count, mlx_temps,
                   driver_vars>>

NextRead == I2CWriteAddress \/ I2CReadChunk \/ I2CReadReturn

\* the blocking bus calls return and the function runs on
SpecRead == InitRead /\ [][NextRead]_vars /\ WF_vars(NextRead)

\* number of chunks a read of n words needs
chunks_of(n) == (n + CHUNK_SIZE - 1) \div CHUNK_SIZE

\* transaction j of a call is the one the chunking prescribes: the write of
\* the address of chunk (j + 1) \div 2, then the read of that chunk
prescribed(j) ==
    LET k == (j + 1) \div 2
        address == (dt.startAddress + CHUNK_SIZE * (k - 1)) % TwoTo16
        entry == dt.log[j]
    IN  /\ entry.address = address
        /\ entry.op = IF j % 2 = 1 THEN "write" ELSE "read"
        /\ j % 2 = 0 =>
              /\ entry.words = Min(CHUNK_SIZE, dt.nWordsRead - CHUNK_SIZE * (k - 1))
              /\ entry.words >= 1

read_call_correct ==
    /\ Len(dt.log) <= 2 * chunks_of(dt.nWordsRead)
    /\ \A j \in 1 .. Len(dt.log) :
          /\ prescribed(j)
          /\ dt.log[j].result < 0 => j = Len(dt.log) /\ dt.pc = "done" /\ status = -1
    /\ \A i \in DOMAIN dt.data : i >= dt.nWordsRead => dt.data[i] = -1
    /\ dt.pc = "done" =>
          /\ status \in {0, -1}
          /\ status = -1 <=> (dt.log # << >> /\ dt.log[Len(dt.log)].result < 0)
          /\ status = 0 =>
                /\ Len(dt.log) = 2 * chunks_of(dt.nWordsRead)
                /\ \A i \in 0 .. dt.nWordsRead - 1 :
                      dt.data[i] = sensor_word((dt.startAddress + i) % TwoTo16)

\* C30: MLX90640_I2CRead terminates for every nWordsRead; with no failing bus
\* transaction it issues address-write / read pairs of at most 32 words at
\* consecutive word addresses from startAddress, stores exactly nWordsRead
\* words in order and returns 0; a failing write or read makes it return -1
\* at once, with no further transaction.
C30_ChunkedReadCompletes ==
    /\ [](program = "read" => read_call_correct)
    /\ <>(dt.pc = "done")

\* a read of 65 words across the end of the address space has returned 0
\* after three chunks of 32, 32 and 1 words
C30_Witness ==
    /\ program = "read"
    /\ dt.pc = "done"
    /\ status = 0
    /\ dt.nWordsRead = 65
    /\ dt.startAddress = 65520
    /\ Len(dt.log) = 6
    /\ dt.log[6].words = 1
    /\ dt.log[5].address = 48
    /\ dt.data[64] = sensor_word(48)
    /\ dt.data[65] = -1

====
